---- MODULE Spec2Model ----
(***************************************************************************)
(* url-checker: the batch processor (URLChecker.CheckLinks, processLinks)  *)
(* over the SQLite persistence layer (tables batches and links), the       *)
(* shutdown flag and the HTTP handlers that read it, and the report queue  *)
(* (GeneratePDFReportAsync, StartWorker, processPDFTask).                  *)
(*                                                                         *)
(* Each call of CheckLinks is a process; the per-link goroutines of its    *)
(* fan-out are its units.  Each call of GeneratePDFReportAsync is a        *)
(* process, the worker is one more.  A database statement and a channel    *)
(* operation are one atomic step each.                                     *)
(*                                                                         *)
(* Spec           concurrent CheckLinks calls on a new store               *)
(* ServiceSpec    one request, on a route or on the service, and the flag  *)
(* ReportSpec     concurrent report calls, the worker and the flag         *)
(* ReportLiveSpec the report calls and the worker, with the 30 s timer     *)
(* WorkerLiveSpec one report call, the worker and the end of its context   *)
(* BuilderSpec    GeneratePDFReport over stores of several batches         *)
(* InputSpec      report calls with any batch list, the empty one included *)
(* ConcurrentSpec report builds taken query by query, running together     *)
(* FlakySpec      one CheckLinks call to a server whose answers vary       *)
(* ProbeSpec      checkURLAvailability over addresses and network answers  *)
(* DbSpec         direct calls of the persistence layer                    *)
(***************************************************************************)
EXTENDS Integers, Sequences, FiniteSets, TLC

\* ---------------------------------------------------------------- bounds
MaxCalls == 2     \* CheckLinks calls
MaxRows == 2      \* rows the links table can take
MaxFaults == 1    \* statements that fail for a reason other than the context
MaxRequests == 2  \* GeneratePDFReportAsync calls

\* ------------------------------------------------------ program constants
QueueCap == 10    \* pendingPDFTasks: make(chan *PDFTask, 10)
TaskChanCap == 1  \* Result: make(chan []byte, 1), Error: make(chan error, 1)

Calls == 1..MaxCalls

\* ------------------------------------------------------- models constants
StatusAvailable == "available"
StatusNotAvailable == "not available"
StatusProcessing == "processing"

BatchStatusProcessing == "processing"
BatchStatusCompleted == "completed"
BatchStatusFailed == "failed"

\* SQL NULL / Go nil for the links.time column, and the value of time.Now()
NULL == "NULL"
Now == "now"

\* an empty slot of the results slice (nil *models.Link)
NilLink == [nil |-> TRUE]

\* the zero value models.CheckResponse{}
EmptyResponse == [Links |-> <<>>, LinksNum |-> 0]

\* errors: nil, ctx.Err() of a cancelled context, the PRIMARY KEY violation
\* of INSERT INTO batches, any other failure of a statement
ErrNil == "nil"
ErrCanceled == "context canceled"
ErrConstraint == "UNIQUE constraint failed: batches.links_num"
ErrDb == "database error"

\* ----------------------------------------------------------------- inputs
\* an address is the sequence of its parts: a scheme prefix, a host, a path.
\* The addresses of the check requests, served as by the tests' stub server:
\* /ok answers 200, /notfound answers 404
OkURL == <<"http://", "host", "/ok">>
NotFoundURL == <<"http://", "host", "/notfound">>

\* address lists of up to n addresses; a list starts with OkURL, the other
\* address makes lists with distinct and with repeated addresses
RECURSIVE LinkLists(_)
LinkLists(n) ==
    IF n = 0 THEN {<<>>}
    ELSE LinkLists(n - 1) \cup
         {Append(l, u) : l \in {m \in LinkLists(n - 1) : Len(m) = n - 1},
                         u \in IF n = 1 THEN {OkURL} ELSE {OkURL, NotFoundURL}}

\* the address lists whose rows still fit into the links table
Inputs(used) == LinkLists(MaxRows - used)

VARIABLES
    batches,     \* table batches: rows [links_num, status, created_at], as inserted
    links,       \* table links: rows [id, url, status, batch_num, time]; id = position
    faults,      \* statements that failed for a reason other than the context
    pc,          \* per call: position in CheckLinks / processLinks
    input,       \* per call: the links argument
    cancelled,   \* per call: ctx.Done() is closed
    batchNum,    \* per call: the local batchNum
    linkIDs,     \* per call: the local linkIDs of processLinks
    units,       \* per call: the goroutines, [pc, status, time] per index
    results,     \* per call: the results slice
    outcome,     \* per call: how CheckLinks ended
    cause,       \* per call: the root error wrapped in the returned error
    response,    \* per call: the returned models.CheckResponse
    startMax,    \* history: the largest batch number when the call began
    cancelAt,    \* history: where the call was when its context was cancelled
    created,     \* history: the call inserted its batch row
    updFailed    \* history: ids of links whose UpdateLinkStatus returned an error

VARIABLES
    shutdown,    \* URLChecker.shutdown
    lastSet,     \* history: the argument of the last SetShutdown call
    http,        \* per route: the HTTP request in its handler, [pc, code, id]
    queue,       \* URLChecker.pendingPDFTasks: the queued tasks, oldest first
    tasks,       \* per task: [BatchIDs, Result, Error], the channels as buffers
    req,         \* per GeneratePDFReportAsync call: [pc, ids, how, data, err]
    worker,      \* StartWorker: [pc, task, data, err]
    workerDone,  \* the worker's ctx.Done() is closed
    probe,       \* the last direct call of checkURLAvailability:
                 \* [url, target, answer, status, requests]
    dbCall       \* the last direct call of the persistence layer:
                 \* [op, id, status, time, err]

vars == <<batches, links, faults, pc, input, cancelled, batchNum, linkIDs, units,
          results, outcome, cause, response, startMax, cancelAt, created, updFailed,
          shutdown, lastSet, http, queue, tasks, req, worker, workerDone, probe,
          dbCall>>

\* the state of the report queue, its requesters and its worker
reportVars == <<queue, tasks, req, worker, workerDone>>
\* the state outside the batch processor
serviceVars == <<shutdown, lastSet, http, reportVars, probe, dbCall>>

dbVars == <<batches, links>>
histVars == <<startMax, cancelAt, created, updFailed>>
\* the state of the batch processor's calls
callVars == <<faults, pc, input, cancelled, batchNum, linkIDs, units, results,
              outcome, cause, response, histVars>>

\* ------------------------------------------------------ persistence layer
RECURSIVE MaxOf(_)
MaxOf(S) ==
    IF S = {} THEN 0
    ELSE LET x == CHOOSE y \in S : TRUE
             m == MaxOf(S \ {x})
         IN IF x > m THEN x ELSE m

\* a batches table without a key
PrimaryKeyTakenNever(linksNum) == FALSE

\* SELECT COALESCE(MAX(links_num), 0) FROM batches
GetMaxBatchNum == MaxOf({batches[i].links_num : i \in DOMAIN batches})

\* links_num INTEGER PRIMARY KEY
PrimaryKeyTaken(linksNum) == \E i \in DOMAIN batches : batches[i].links_num = linksNum

\* INSERT INTO batches (links_num, status, created_at) VALUES (?, ?, ?)
InsertBatch(linksNum, status, createdAt) ==
    Append(batches, [links_num |-> linksNum, status |-> status, created_at |-> createdAt])

\* INSERT INTO links (url, status, batch_num, time) VALUES (?, ?, ?, ?);
\* id INTEGER PRIMARY KEY AUTOINCREMENT, rows are never deleted
NextLinkID == Len(links) + 1

InsertLink(url, status, num, time) ==
    Append(links, [id |-> NextLinkID, url |-> url, status |-> status,
                   batch_num |-> num, time |-> time])

\* an UPDATE of links that is acknowledged and not applied
UpdateLinkRowLost(id, status, time) == links

\* the UPDATE of links without its WHERE clause
UpdateLinkRowNoWhere(id, status, time) ==
    [i \in DOMAIN links |-> [links[i] EXCEPT !.status = status, !.time = time]]

\* UPDATE links SET status = ?, time = ? WHERE id = ?
UpdateLinkRow(id, status, time) ==
    [i \in DOMAIN links |->
        IF links[i].id = id
        THEN [links[i] EXCEPT !.status = status, !.time = time]
        ELSE links[i]]

\* UPDATE batches SET status = ? WHERE links_num = ?
UpdateBatchRow(linksNum, status) ==
    [i \in DOMAIN batches |->
        IF batches[i].links_num = linksNum
        THEN [batches[i] EXCEPT !.status = status]
        ELSE batches[i]]

\* SELECT links_num, status, created_at FROM batches WHERE links_num = ?
GetBatch(linksNum) ==
    batches[CHOOSE i \in DOMAIN batches : batches[i].links_num = linksNum]

\* SELECT ... FROM links WHERE batch_num = ? ORDER BY id
GetLinksByBatchNum(linksNum) ==
    SelectSeq(links, LAMBDA r : r.batch_num = linksNum)

\* a statement run with a context that is done fails with ctx.Err() and
\* writes nothing
CtxErr(p) == IF cancelled[p] THEN ErrCanceled ELSE ErrNil

\* statements that fail once the shutdown flag is set
StmtErrOnShutdown(p, fault) ==
    IF shutdown THEN "service is shutting down"
    ELSE IF CtxErr(p) # ErrNil THEN CtxErr(p)
    ELSE IF fault THEN ErrDb ELSE ErrNil

\* the error of one statement of call p: the context first, then the
\* statement's own failure
StmtErr(p, fault) ==
    IF CtxErr(p) # ErrNil THEN CtxErr(p)
    ELSE IF fault THEN ErrDb ELSE ErrNil

\* the failures a statement of call p may meet
FaultChoices(p) ==
    IF ~cancelled[p] /\ faults < MaxFaults THEN BOOLEAN ELSE {FALSE}

Charge(fault) == faults' = IF fault THEN faults + 1 ELSE faults

\* rows of the links table taken or reserved by the calls admitted so far
RECURSIVE Reserved(_)
Reserved(n) == IF n = 0 THEN 0 ELSE Len(input[n]) + Reserved(n - 1)

\* ---------------------------------------------------------- report tasks
Requesters == 1..MaxRequests
Routes == {"check", "report", "status"}

\* the tasks: 1..QueueCap are tasks of earlier requesters that have returned
\* by timeout and left them in the queue, QueueCap + r is the task of call r
TaskIDs == 1..(QueueCap + MaxRequests)
TaskOf(r) == QueueCap + r

\* the batch lists of the report requests: batch 1 is stored, batch 2 is not
StoredIDs == <<1>>
MissingIDs == <<2>>
ReportIDs == {StoredIDs, MissingIDs}

\* nil []byte
NoBytes == [batches |-> <<>>, links |-> <<>>]

\* task := &PDFTask{BatchIDs: batchIDs, Result: make(...), Error: make(...)}
NewTask(ids) == [BatchIDs |-> ids, Result |-> <<>>, Error |-> <<>>]
\* a task that has not been made
NoTask == NewTask(<<>>)

\* a store as the report tests set it up: batch 1, completed, one available link
StoredBatches == <<[links_num |-> 1, status |-> BatchStatusCompleted, created_at |-> Now]>>
StoredLinks == <<[id |-> 1, url |-> OkURL, status |-> StatusAvailable,
                  batch_num |-> 1, time |-> Now]>>

\* a store after n CheckLinks calls of one reachable address each: batches
\* 1..n, completed, link i in batch i
StoreBatches(n) ==
    [i \in 1..n |-> [links_num |-> i, status |-> BatchStatusCompleted, created_at |-> Now]]
StoreLinks(n) ==
    [i \in 1..n |-> [id |-> i, url |-> OkURL, status |-> StatusAvailable,
                     batch_num |-> i, time |-> Now]]

\* the batchIDs arguments of GeneratePDFReport: up to two numbers, equal or
\* not, each stored in the largest store or one beyond it
BatchIDLists ==
    LET nums == 1..(MaxRows + 1)
    IN {<<>>} \cup {<<a>> : a \in nums} \cup {<<a, b>> : a \in nums, b \in nums}

\* the fill of the queue at the start: empty or full
Prefills == {0, QueueCap}

\* no direct call of checkURLAvailability has been made
NoProbe == [url |-> <<>>, target |-> <<>>, answer |-> [err |-> TRUE, code |-> 0], status |-> "",
            requests |-> 0]

\* no direct call of the persistence layer has been made
NoDbCall == [op |-> "", id |-> 0, status |-> "", time |-> NULL, err |-> ErrNil]

\* ------------------------------------------------------------------- Init
\* no CheckLinks call has been made
CallsIdle ==
    /\ faults = 0
    /\ pc = [p \in Calls |-> "idle"]
    /\ input = [p \in Calls |-> <<>>]
    /\ cancelled = [p \in Calls |-> FALSE]
    /\ batchNum = [p \in Calls |-> 0]
    /\ linkIDs = [p \in Calls |-> <<>>]
    /\ units = [p \in Calls |-> <<>>]
    /\ results = [p \in Calls |-> <<>>]
    /\ outcome = [p \in Calls |-> "running"]
    /\ cause = [p \in Calls |-> ErrNil]
    /\ response = [p \in Calls |-> EmptyResponse]
    /\ startMax = [p \in Calls |-> 0]
    /\ cancelAt = [p \in Calls |-> "never"]
    /\ created = [p \in Calls |-> FALSE]
    /\ updFailed = {}

\* NewURLChecker: the flag is false; no request is in a handler, no report
\* call has been made, the worker waits in its select; n tasks are queued
ServiceIdle(n) ==
    /\ shutdown = FALSE
    /\ lastSet = FALSE
    /\ http = [k \in Routes |-> [pc |-> "idle", code |-> 0, id |-> 0]]
    /\ queue = [t \in 1..n |-> t]
    /\ tasks = [t \in TaskIDs |-> IF t <= n THEN NewTask(StoredIDs) ELSE NoTask]
    /\ req = [r \in Requesters |->
                [pc |-> "idle", ids |-> <<>>, how |-> "", data |-> NoBytes, err |-> ErrNil]]
    /\ worker = [pc |-> "select", task |-> 0, data |-> NoBytes, err |-> ErrNil]
    /\ workerDone = FALSE
    /\ probe = NoProbe
    /\ dbCall = NoDbCall

\* a new store, a new service
Init ==
    /\ batches = <<>>
    /\ links = <<>>
    /\ CallsIdle
    /\ ServiceIdle(0)

\* CheckLinks returns: the locals go out of scope
Return(p, how, err, resp) ==
    /\ pc' = [pc EXCEPT ![p] = "done"]
    /\ outcome' = [outcome EXCEPT ![p] = how]
    /\ cause' = [cause EXCEPT ![p] = err]
    /\ response' = [response EXCEPT ![p] = resp]
    /\ linkIDs' = [linkIDs EXCEPT ![p] = <<>>]
    /\ units' = [units EXCEPT ![p] = <<>>]
    /\ results' = [results EXCEPT ![p] = <<>>]

\* ---------------------------------------------------------------- helpers
\* getNextID without the increment
getNextIDNoIncrement(maxID) == maxID

\* getNextID: maxID + 1
getNextID(maxID) == maxID + 1

\* CreateBatch on a table whose links_num is no key
CreateBatchErrNoKey(p, fault, linksNum) == StmtErr(p, fault)

\* Database.CreateBatch: the error of the INSERT
CreateBatchErr(p, fault, linksNum) ==
    IF StmtErr(p, fault) # ErrNil THEN StmtErr(p, fault)
    ELSE IF PrimaryKeyTaken(linksNum) THEN ErrConstraint
    ELSE ErrNil

\* the time stamp set for one verdict only
StampForAvailableOnly(status) == IF status = StatusAvailable THEN Now ELSE NULL

\* processLinks: var time *time.Time, set for the two verdicts
StampFor(status) ==
    IF status = StatusAvailable \/ status = StatusNotAvailable THEN Now ELSE NULL

\* the numbers and ids of the direct calls: those of the rows the tables can
\* hold, and one beyond
DbKeys == 1..(MaxRows + 1)

\* Database.CreateBatch called directly (as the database tests call it), with
\* a number that is taken or with the next one and with a later time: the
\* INSERT fails on a links_num that is taken and inserts nothing
DbCreateBatch ==
    /\ \E linksNum \in {k \in DbKeys : k <= Len(batches) + 1},
          status \in {BatchStatusProcessing, BatchStatusCompleted, BatchStatusFailed},
          createdAt \in {"later"} :
        LET err == IF PrimaryKeyTaken(linksNum) THEN ErrConstraint ELSE ErrNil IN
        /\ batches' = IF err = ErrNil THEN InsertBatch(linksNum, status, createdAt)
                      ELSE batches
        /\ dbCall' = [op |-> "CreateBatch", id |-> linksNum, status |-> status,
                      time |-> createdAt, err |-> err]
    /\ UNCHANGED <<links, callVars, probe, shutdown, lastSet, http, reportVars>>

\* Database.UpdateLinkStatus called directly: the UPDATE succeeds whatever
\* number of rows its WHERE clause matches
DbUpdateLinkStatus ==
    /\ \E id \in DbKeys, status \in {StatusAvailable, StatusNotAvailable, StatusProcessing} :
        /\ links' = UpdateLinkRow(id, status, StampFor(status))
        /\ dbCall' = [op |-> "UpdateLinkStatus", id |-> id, status |-> status,
                      time |-> StampFor(status), err |-> ErrNil]
    /\ UNCHANGED <<batches, callVars, probe, shutdown, lastSet, http, reportVars>>

\* Database.UpdateBatchStatus called directly
DbUpdateBatchStatus ==
    /\ \E linksNum \in DbKeys,
          status \in {BatchStatusProcessing, BatchStatusCompleted, BatchStatusFailed} :
        /\ batches' = UpdateBatchRow(linksNum, status)
        /\ dbCall' = [op |-> "UpdateBatchStatus", id |-> linksNum, status |-> status,
                      time |-> NULL, err |-> ErrNil]
    /\ UNCHANGED <<links, callVars, probe, shutdown, lastSet, http, reportVars>>

\* ----------------------------------------------------------------- prober
\* the parts of the addresses: scheme prefixes, hosts, paths, and a part with
\* an escape that url.Parse rejects
Schemes == {"http://", "https://"}
Hosts == {"host"}
Paths == {"/ok", "/notfound", "/error", "/flaky"}
BadEscape == "%zz"

\* strings.HasPrefix(rawURL, prefix), for a prefix that is a scheme
HasPrefix(rawURL, prefix) == Len(rawURL) > 0 /\ rawURL[1] = prefix

\* a prober that puts the default scheme before every address
NormalizeAlways(rawURL) == <<"http://">> \o rawURL

\* if !HasPrefix(rawURL, "http://") && !HasPrefix(rawURL, "https://")
\*     { rawURL = "http://" + rawURL }
Normalize(rawURL) ==
    IF ~HasPrefix(rawURL, "http://") /\ ~HasPrefix(rawURL, "https://")
    THEN <<"http://">> \o rawURL
    ELSE rawURL

\* url.Parse of an address with a scheme: the error (an invalid escape in the
\* host or in the path) and the Host, the part between the scheme and the path
ParseErr(u) == \E i \in DOMAIN u : u[i] = BadEscape
ParsedHost(u) == IF Len(u) >= 2 /\ u[2] \in Hosts THEN u[2] ELSE ""

\* what httpClient.Do returns: a transport error, or a response with a code
TransportError == [err |-> TRUE, code |-> 0]
Response(code) == [err |-> FALSE, code |-> code]
ResponseCodes == {101, 200, 204, 302, 399, 400, 404, 500}
Answers == {TransportError} \cup {Response(c) : c \in ResponseCodes}

\* the stub server of the tests: 200 on /ok, 404 on /notfound, 500 on /error,
\* 404 on any other path
StubAnswer(u) ==
    IF \E i \in DOMAIN u : u[i] = "/ok" THEN Response(200)
    ELSE IF \E i \in DOMAIN u : u[i] = "/error" THEN Response(500)
    ELSE Response(404)

\* an address of a server that answers some requests 200 and others 500
FlakyURL == <<"http://", "host", "/flaky">>

\* the answers the network can give to a request for the address
ServerAnswers(u) ==
    IF \E i \in DOMAIN u : u[i] = "/flaky" THEN {Response(200), Response(500)}
    ELSE {StubAnswer(u)}

\* a prober that takes every response for a sign of life
checkURLAvailabilityAnyCode(rawURL, answer) ==
    LET u == Normalize(rawURL) IN
    IF ParseErr(u) \/ ParsedHost(u) = ""
    THEN [status |-> StatusNotAvailable, requests |-> 0]
    ELSE IF answer.err
    THEN [status |-> StatusNotAvailable, requests |-> 1]
    ELSE [status |-> StatusAvailable, requests |-> 1]

\* checkURLAvailability(rawURL), the network answering its request with
\* answer: the verdict and the number of requests sent
checkURLAvailability(rawURL, answer) ==
    LET u == Normalize(rawURL) IN
    IF ParseErr(u) \/ ParsedHost(u) = ""
    THEN [status |-> StatusNotAvailable, requests |-> 0]
    ELSE IF ParseErr(u)      \* http.NewRequest parses the address again
    THEN [status |-> StatusNotAvailable, requests |-> 0]
    ELSE IF answer.err
    THEN [status |-> StatusNotAvailable, requests |-> 1]
    ELSE IF answer.code >= 200 /\ answer.code < 400
    THEN [status |-> StatusAvailable, requests |-> 1]
    ELSE [status |-> StatusNotAvailable, requests |-> 1]

\* a write that takes the first empty slot, as an append would
WriteSlotAppend(rs, idx, link) ==
    LET free == CHOOSE k \in DOMAIN rs :
                    rs[k] = NilLink /\ \A j \in DOMAIN rs : rs[j] = NilLink => k <= j
    IN [rs EXCEPT ![free] = link]

\* results[idx] = &models.Link{...}, under resultsMux
WriteSlot(rs, idx, link) == [rs EXCEPT ![idx] = link]

\* a wait that ends with the first goroutine
JoinReadyAny(p) == \E i \in DOMAIN units[p] : units[p][i].pc = "exit"

\* wg.Wait(): every goroutine has run its deferred wg.Done()
JoinReady(p) == \A i \in DOMAIN units[p] : units[p][i].pc = "exit"

\* the addresses probed directly: with a scheme prefix or without, with a host
\* or without, with a path, a part that cannot be parsed, or neither
Addresses ==
    {scheme \o host \o rest :
        scheme \in {<<>>} \cup {<<x>> : x \in Schemes},
        host \in {<<>>} \cup {<<x>> : x \in Hosts},
        rest \in {<<>>, <<"/ok">>, <<"/error">>, <<BadEscape>>}}

\* checkURLAvailability called on the service (as the service tests call it),
\* the network answering as it likes; target is the local rawURL that url.Parse
\* and http.NewRequest are given
ProbeDirect ==
    /\ \E rawURL \in Addresses, answer \in Answers :
        LET out == checkURLAvailability(rawURL, answer) IN
        probe' = [url |-> rawURL, target |-> Normalize(rawURL),
                  answer |-> answer, status |-> out.status,
                  requests |-> out.requests]
    /\ UNCHANGED <<dbVars, callVars, dbCall, shutdown, lastSet, http, reportVars>>

\* a map that keeps the first status written for an address
RECURSIVE ResultLinksFirstWins(_, _)
ResultLinksFirstWins(rs, n) ==
    IF n = 0 THEN <<>>
    ELSE LET acc == ResultLinksFirstWins(rs, n - 1)
         IN [u \in DOMAIN acc \cup {rs[n].URL} |->
                IF u \in DOMAIN acc THEN acc[u] ELSE rs[n].Status]

\* CheckLinks: resultLinks[link.URL] = string(link.Status), in slice order
RECURSIVE ResultLinks(_, _)
ResultLinks(rs, n) ==
    IF n = 0 THEN <<>>
    ELSE LET acc == ResultLinks(rs, n - 1)
         IN [u \in DOMAIN acc \cup {rs[n].URL} |->
                IF u = rs[n].URL THEN rs[n].Status ELSE acc[u]]

\* GetBatchStatus: resultLinks[link.URL] = string(link.Status) over the rows,
\* in the order of the query
LinksByURL(rows) ==
    [u \in {rows[i].url : i \in DOMAIN rows} |->
        rows[CHOOSE i \in DOMAIN rows :
                /\ rows[i].url = u
                /\ \A j \in DOMAIN rows : rows[j].url = u => j <= i].status]

\* the stage of the call at which its context is cancelled
Phase(p) ==
    IF pc[p] = "fanout"
    THEN LET done == {i \in DOMAIN units[p] : units[p][i].pc = "exit"}
         IN IF done = {} THEN "fanout, no unit finished"
            ELSE IF done = DOMAIN units[p] THEN "fanout, all units finished"
            ELSE "fanout, some unit finished"
    ELSE IF pc[p] = "getNextID" THEN "entry"
    ELSE IF pc[p] = "markFailed" THEN "after failure"
    ELSE "admission"

\* a goroutine that has returned
Exited == [pc |-> "exit", status |-> "", time |-> NULL]

\* an entry check that lets every list through
NoLinksNever(ls) == FALSE

\* CheckLinks: if len(links) == 0 (a nil slice has length 0)
NoLinks(ls) == Len(ls) = 0

\* ---------------------------------------------------------------- actions
\* CheckLinks entry with the argument ls: if len(links) == 0 return
\* "no links provided"
CheckLinksEntry(p, ls) ==
    /\ pc[p] = "idle"
    /\ \A q \in Calls : q < p => pc[q] # "idle"   \* calls are numbered as they arrive
    /\ input' = [input EXCEPT ![p] = ls]
    /\ IF NoLinks(ls)
       THEN /\ Return(p, "no links provided", "no links provided", EmptyResponse)
            /\ UNCHANGED startMax
       ELSE /\ pc' = [pc EXCEPT ![p] = "getNextID"]
            /\ startMax' = [startMax EXCEPT ![p] = GetMaxBatchNum]
            /\ UNCHANGED <<outcome, cause, response, linkIDs, units, results>>
    /\ UNCHANGED <<dbVars, faults, cancelled, batchNum, cancelAt, created, updFailed>>
    /\ UNCHANGED <<shutdown, lastSet, reportVars, probe, dbCall>>

\* CheckLinks called on the service (as the service tests call it)
Start(p) ==
    /\ \E ls \in Inputs(Reserved(MaxCalls)) : CheckLinksEntry(p, ls)
    /\ UNCHANGED http

\* the address lists of a call to a server that is at times out of order:
\* up to MaxRows addresses, each the address of the stub's /ok or the flaky one
RECURSIVE FlakyLists(_)
FlakyLists(n) ==
    IF n = 0 THEN {<<>>}
    ELSE FlakyLists(n - 1) \cup
         {Append(l, u) : l \in {m \in FlakyLists(n - 1) : Len(m) = n - 1},
                         u \in {OkURL, FlakyURL}}

\* CheckLinks called on the service with such a list, no other call running
StartFlaky(p) ==
    /\ \A q \in Calls : pc[q] = "idle"
    /\ \E ls \in FlakyLists(MaxRows) : CheckLinksEntry(p, ls)
    /\ UNCHANGED http

\* the caller cancels the context of the call: before the call's first
\* statement (as when it is cancelled before CheckLinks is entered), or later
Cancel(p) ==
    /\ pc[p] \notin {"idle", "done"}
    /\ ~cancelled[p]
    /\ cancelled' = [cancelled EXCEPT ![p] = TRUE]
    /\ cancelAt' = [cancelAt EXCEPT ![p] = Phase(p)]
    /\ UNCHANGED <<serviceVars, dbVars, faults, pc, input, batchNum, linkIDs, units, results,
                   outcome, cause, response, startMax, created, updFailed>>

\* batchNum, err := urlchecker.getNextID(ctx)
GetNextID(p) ==
    /\ pc[p] = "getNextID"
    /\ \E fault \in FaultChoices(p) :
        LET err == StmtErr(p, fault) IN
        /\ Charge(fault)
        /\ IF err # ErrNil
           THEN /\ Return(p, "failed to get next batch ID", err, EmptyResponse)
                /\ UNCHANGED batchNum
           ELSE /\ batchNum' = [batchNum EXCEPT ![p] = getNextID(GetMaxBatchNum)]
                /\ pc' = [pc EXCEPT ![p] = "createBatch"]
                /\ UNCHANGED <<outcome, cause, response, linkIDs, units, results>>
    /\ UNCHANGED <<serviceVars, dbVars, input, cancelled, histVars>>

\* urlchecker.db.CreateBatch(ctx, batchNum, BatchStatusProcessing, time.Now())
CreateBatch(p) ==
    /\ pc[p] = "createBatch"
    /\ \E fault \in FaultChoices(p) :
        LET err == CreateBatchErr(p, fault, batchNum[p]) IN
        /\ Charge(fault)
        /\ IF err # ErrNil
           THEN /\ Return(p, "failed to create batch", err, EmptyResponse)
                /\ UNCHANGED <<batches, created>>
           ELSE /\ batches' = InsertBatch(batchNum[p], BatchStatusProcessing, Now)
                /\ created' = [created EXCEPT ![p] = TRUE]
                /\ pc' = [pc EXCEPT ![p] = "createLinks"]
                /\ UNCHANGED <<outcome, cause, response, linkIDs, units, results>>
    /\ UNCHANGED <<serviceVars, links, input, cancelled, batchNum, startMax, cancelAt, updFailed>>

\* processLinks, first loop: one CreateLink per address; after the last one
\* the results slice is made and one goroutine per address is started
CreateLink(p) ==
    /\ pc[p] = "createLinks"
    /\ \E fault \in FaultChoices(p) :
        LET err == StmtErr(p, fault)
            i == Len(linkIDs[p]) + 1
            n == Len(input[p])
        IN
        /\ Charge(fault)
        /\ IF err # ErrNil
           THEN /\ pc' = [pc EXCEPT ![p] = "markFailed"]
                /\ cause' = [cause EXCEPT ![p] = err]
                /\ UNCHANGED <<links, linkIDs, units, results>>
           ELSE /\ links' = InsertLink(input[p][i], StatusProcessing, batchNum[p], NULL)
                /\ linkIDs' = [linkIDs EXCEPT ![p] = Append(@, NextLinkID)]
                /\ UNCHANGED cause
                /\ IF i = n
                   THEN /\ units' = [units EXCEPT ![p] =
                                [j \in 1..n |-> [pc |-> "start", status |-> "", time |-> NULL]]]
                        /\ results' = [results EXCEPT ![p] = [j \in 1..n |-> NilLink]]
                        /\ pc' = [pc EXCEPT ![p] = "fanout"]
                   ELSE UNCHANGED <<units, results, pc>>
    /\ UNCHANGED <<serviceVars, batches, input, cancelled, batchNum, outcome, response, histVars>>

\* CheckLinks, processLinks failed: UpdateBatchStatus(ctx, batchNum, Failed),
\* its error dropped, then return "failed to process links"
MarkFailed(p) ==
    /\ pc[p] = "markFailed"
    /\ \E fault \in FaultChoices(p) :
        /\ Charge(fault)
        /\ batches' = IF StmtErr(p, fault) = ErrNil
                      THEN UpdateBatchRow(batchNum[p], BatchStatusFailed)
                      ELSE batches
    /\ Return(p, "failed to process links", cause[p], EmptyResponse)
    /\ UNCHANGED <<serviceVars, links, input, cancelled, batchNum, histVars>>

SetUnit(p, i, u) == units' = [units EXCEPT ![p][i] = u]

\* goroutine, first select on ctx.Done(), then checkURLAvailability and the
\* time stamp
UnitProbe(p, i) ==
    /\ pc[p] = "fanout"
    /\ units[p][i].pc = "start"
    /\ IF cancelled[p]
       THEN SetUnit(p, i, Exited)
       ELSE \E answer \in ServerAnswers(Normalize(input[p][i])) :
                LET status == checkURLAvailability(input[p][i], answer).status
                IN SetUnit(p, i, [pc |-> "probed", status |-> status,
                                  time |-> StampFor(status)])
    /\ UNCHANGED <<serviceVars, dbVars, faults, pc, input, cancelled, batchNum, linkIDs, results,
                   outcome, cause, response, histVars>>

\* a goroutine without its second select
UnitCheckNever(p, i) ==
    /\ pc[p] = "fanout"
    /\ units[p][i].pc = "probed"
    /\ SetUnit(p, i, [units[p][i] EXCEPT !.pc = "persist"])
    /\ UNCHANGED <<serviceVars, dbVars, faults, pc, input, cancelled, batchNum, linkIDs, results,
                   outcome, cause, response, histVars>>

\* goroutine, second select on ctx.Done()
UnitCheck(p, i) ==
    /\ pc[p] = "fanout"
    /\ units[p][i].pc = "probed"
    /\ SetUnit(p, i, IF cancelled[p] THEN Exited ELSE [units[p][i] EXCEPT !.pc = "persist"])
    /\ UNCHANGED <<serviceVars, dbVars, faults, pc, input, cancelled, batchNum, linkIDs, results,
                   outcome, cause, response, histVars>>

\* a goroutine that returns when UpdateLinkStatus fails
UnitPersistOrReturn(p, i) ==
    /\ pc[p] = "fanout"
    /\ units[p][i].pc = "persist"
    /\ \E fault \in FaultChoices(p) :
        LET err == StmtErr(p, fault)
            u == units[p][i]
        IN
        /\ Charge(fault)
        /\ links' = IF err = ErrNil
                    THEN UpdateLinkRow(linkIDs[p][i], u.status, u.time)
                    ELSE links
        /\ updFailed' = IF err = ErrNil THEN updFailed ELSE updFailed \cup {linkIDs[p][i]}
        /\ results' = IF err = ErrNil
                      THEN [results EXCEPT ![p] = WriteSlot(@, i,
                              [ID |-> linkIDs[p][i], URL |-> input[p][i], Status |-> u.status,
                               BatchNum |-> batchNum[p], Time |-> u.time])]
                      ELSE results
        /\ SetUnit(p, i, Exited)
    /\ UNCHANGED <<serviceVars, batches, pc, input, cancelled, batchNum, linkIDs, outcome, cause,
                   response, startMax, cancelAt, created>>

\* goroutine: UpdateLinkStatus (an error is logged), then results[idx] is
\* written under resultsMux
UnitPersist(p, i) ==
    /\ pc[p] = "fanout"
    /\ units[p][i].pc = "persist"
    /\ \E fault \in FaultChoices(p) :
        LET err == StmtErr(p, fault)
            u == units[p][i]
        IN
        /\ Charge(fault)
        /\ links' = IF err = ErrNil
                    THEN UpdateLinkRow(linkIDs[p][i], u.status, u.time)
                    ELSE links
        /\ updFailed' = IF err = ErrNil THEN updFailed ELSE updFailed \cup {linkIDs[p][i]}
        /\ results' = [results EXCEPT ![p] = WriteSlot(@, i,
                          [ID |-> linkIDs[p][i], URL |-> input[p][i], Status |-> u.status,
                           BatchNum |-> batchNum[p], Time |-> u.time])]
        /\ SetUnit(p, i, Exited)
    /\ UNCHANGED <<serviceVars, batches, pc, input, cancelled, batchNum, linkIDs, outcome, cause,
                   response, startMax, cancelAt, created>>

\* processLinks: wg.Wait(), then UpdateBatchStatus(ctx, batchNum, Completed)
\* (an error is logged), return results, nil.  CheckLinks: the loop over
\* processedLinks reads link.URL of every slot (a nil slot is a nil pointer
\* dereference), then the response is returned
Join(p) ==
    /\ pc[p] = "fanout"
    /\ JoinReady(p)
    /\ \E fault \in FaultChoices(p) :
        /\ Charge(fault)
        /\ batches' = IF StmtErr(p, fault) = ErrNil
                      THEN UpdateBatchRow(batchNum[p], BatchStatusCompleted)
                      ELSE batches
    /\ IF \E i \in DOMAIN results[p] : results[p][i] = NilLink
       THEN Return(p, "panic", "nil pointer dereference", EmptyResponse)
       ELSE Return(p, "ok", ErrNil,
                   [Links |-> ResultLinks(results[p], Len(results[p])),
                    LinksNum |-> batchNum[p]])
    /\ UNCHANGED <<serviceVars, links, input, cancelled, batchNum, histVars>>

\* ------------------------------------------------------------ vocabulary
Done(p) == pc[p] = "done"
Succeeded(p) == outcome[p] = "ok"
Panicked(p) == outcome[p] = "panic"
\* the call returned an error that wraps ctx.Err()
FailedCanceled(p) == Done(p) /\ ~Succeeded(p) /\ ~Panicked(p) /\ cause[p] = ErrCanceled
\* processLinks of the call went through wg.Wait()
Joined(p) == Succeeded(p) \/ Panicked(p)
Terminal(status) == status \in {BatchStatusCompleted, BatchStatusFailed}
Verdict(status) == status \in {StatusAvailable, StatusNotAvailable}

\* ------------------------------------------------------------- lifecycle
\* a flag that always reads false
IsShutdownNever == FALSE

\* IsShutdown: the flag, read under shutdownMux.RLock()
IsShutdown == shutdown

\* SetShutdown(b): the flag is written under shutdownMux.Lock()
SetShutdown(b) ==
    /\ shutdown' = b
    /\ lastSet' = b
    /\ UNCHANGED <<dbVars, callVars, probe, dbCall, http, reportVars>>

\* --------------------------------------------------------- report builder
\* the first query without its WHERE clause
BatchesByIDsNoWhere(ids) == batches

\* GetBatchesByIDs, first query: WHERE links_num IN (ids) ORDER BY links_num
\* (rows are inserted with increasing numbers)
BatchesByIDs(ids) ==
    SelectSeq(batches, LAMBDA b : \E i \in DOMAIN ids : ids[i] = b.links_num)

\* GetBatchesByIDs, second query: WHERE batch_num IN (ids) ORDER BY batch_num, id
LinksByIDs(ids) ==
    SelectSeq(links, LAMBDA l : \E i \in DOMAIN ids : ids[i] = l.batch_num)

\* a query run with a context that is done fails with ctx.Err()
QueryErr(ctxDone) == IF ctxDone THEN ErrCanceled ELSE ErrNil

\* a builder that renders whatever the queries return
GeneratePDFReportUnchecked(ctxDone, ids) ==
    [data |-> [batches |-> BatchesByIDs(ids), links |-> LinksByIDs(ids)], err |-> ErrNil]

\* GeneratePDFReport(ctx, batchIDs): the bytes of the document (its batches
\* and their links) or the error
GeneratePDFReport(ctxDone, ids) ==
    IF Len(ids) = 0
    THEN [data |-> NoBytes, err |-> "failed to get batches data: no batch IDs provided"]
    ELSE IF QueryErr(ctxDone) # ErrNil
    THEN [data |-> NoBytes, err |-> QueryErr(ctxDone)]
    ELSE IF Len(BatchesByIDs(ids)) = 0
    THEN [data |-> NoBytes, err |-> "no valid batches found"]
    ELSE [data |-> [batches |-> BatchesByIDs(ids), links |-> LinksByIDs(ids)],
          err |-> ErrNil]

\* GeneratePDFReport called on the service (as the service tests call it),
\* with a context that is done or not
BuildDirect(r) ==
    /\ req[r].pc = "idle"
    /\ \A q \in Requesters : q < r => req[q].pc # "idle"   \* numbered as they arrive
    /\ \E ids \in BatchIDLists, ctxDone \in BOOLEAN :
        LET out == GeneratePDFReport(ctxDone, ids) IN
        req' = [req EXCEPT ![r] = [pc |-> "done", ids |-> ids,
                                   how |-> IF ctxDone THEN "direct, ctx done" ELSE "direct",
                                   data |-> out.data, err |-> out.err]]
    /\ UNCHANGED <<dbVars, callVars, probe, dbCall, shutdown, lastSet, http, queue, tasks, worker,
                   workerDone>>

\* -------------------------------------------------- GeneratePDFReportAsync
\* a select branch that records its outcome and goes on waiting
ReportReturnAndStay(r, how, data, err) ==
    req' = [req EXCEPT ![r].how = how, ![r].data = data, ![r].err = err]

\* the call returns
ReportReturn(r, how, data, err) ==
    req' = [req EXCEPT ![r].pc = "done", ![r].how = how, ![r].data = data, ![r].err = err]

\* a full queue on which the send is still taken
QueueFullNever == FALSE

\* select { case pendingPDFTasks <- task: ... default: ... }: the send is not
\* ready when the buffer is full
QueueFull == Len(queue) >= QueueCap

\* entry with the argument ids: the IsShutdown check, then the task is made
GeneratePDFReportAsync(r, ids) ==
    /\ req[r].pc = "idle"
    /\ \A q \in Requesters : q < r => req[q].pc # "idle"   \* numbered as they arrive
    /\ IF IsShutdown
       THEN /\ req' = [req EXCEPT ![r] = [pc |-> "done", ids |-> ids, how |-> "rejected",
                                         data |-> NoBytes,
                                         err |-> "service is shutting down"]]
            /\ UNCHANGED tasks
       ELSE /\ req' = [req EXCEPT ![r].pc = "enqueue", ![r].ids = ids]
            /\ tasks' = [tasks EXCEPT ![TaskOf(r)] = NewTask(ids)]
    /\ UNCHANGED <<dbVars, callVars, probe, dbCall, shutdown, lastSet, queue, worker, workerDone>>

\* GeneratePDFReportAsync called on the service (as the service tests call it)
Request(r) ==
    /\ \E ids \in ReportIDs : GeneratePDFReportAsync(r, ids)
    /\ UNCHANGED http

\* GeneratePDFReportAsync called on the service with any list, the empty one
\* included
RequestAny(r) ==
    /\ \E ids \in {<<>>} \cup ReportIDs : GeneratePDFReportAsync(r, ids)
    /\ UNCHANGED http

\* the non-blocking send: the task is queued, or the default branch is taken
Enqueue(r) ==
    /\ req[r].pc = "enqueue"
    /\ IF QueueFull
       THEN /\ req' = [req EXCEPT ![r].pc = "sync"]
            /\ UNCHANGED queue
       ELSE /\ req' = [req EXCEPT ![r].pc = "wait"]
            /\ queue' = Append(queue, TaskOf(r))
    /\ UNCHANGED <<dbVars, callVars, probe, dbCall, shutdown, lastSet, http, tasks, worker, workerDone>>

\* default branch: return urlchecker.GeneratePDFReport(ctx, batchIDs), with the
\* caller's context done or not
BuildSync(r) ==
    /\ req[r].pc = "sync"
    /\ \E ctxDone \in BOOLEAN :
        LET out == GeneratePDFReport(ctxDone, req[r].ids) IN
        ReportReturn(r, IF out.err = ErrNil THEN "sync result" ELSE "sync error",
                     out.data, out.err)
    /\ UNCHANGED <<dbVars, callVars, probe, dbCall, shutdown, lastSet, http, queue, tasks, worker,
                   workerDone>>

\* case pdfData := <-task.Result
WaitResult(r) ==
    /\ req[r].pc = "wait"
    /\ tasks[TaskOf(r)].Result # <<>>
    /\ ReportReturn(r, "result", Head(tasks[TaskOf(r)].Result), ErrNil)
    /\ tasks' = [tasks EXCEPT ![TaskOf(r)].Result = Tail(@)]
    /\ UNCHANGED <<dbVars, callVars, probe, dbCall, shutdown, lastSet, http, queue, worker, workerDone>>

\* case err := <-task.Error
WaitError(r) ==
    /\ req[r].pc = "wait"
    /\ tasks[TaskOf(r)].Error # <<>>
    /\ ReportReturn(r, "error", NoBytes, Head(tasks[TaskOf(r)].Error))
    /\ tasks' = [tasks EXCEPT ![TaskOf(r)].Error = Tail(@)]
    /\ UNCHANGED <<dbVars, callVars, probe, dbCall, shutdown, lastSet, http, queue, worker, workerDone>>

\* a select without the timer
WaitForever(r) == FALSE

\* case <-time.After(30 * time.Second)
WaitTimeout(r) ==
    /\ req[r].pc = "wait"
    /\ ReportReturn(r, "timeout", NoBytes, "PDF generation timeout")
    /\ UNCHANGED <<dbVars, callVars, probe, dbCall, shutdown, lastSet, http, queue, tasks, worker,
                   workerDone>>

\* case <-ctx.Done(): return nil, ctx.Err()
WaitCancelled(r) ==
    /\ req[r].pc = "wait"
    /\ ReportReturn(r, "cancelled", NoBytes, ErrCanceled)
    /\ UNCHANGED <<dbVars, callVars, probe, dbCall, shutdown, lastSet, http, queue, tasks, worker,
                   workerDone>>

\* ----------------------------------------------------------------- worker
\* the context passed to StartWorker is cancelled
CancelWorker ==
    /\ ~workerDone
    /\ workerDone' = TRUE
    /\ UNCHANGED <<dbVars, callVars, probe, dbCall, shutdown, lastSet, http, queue, tasks, req, worker>>

\* a worker loop that returns when the shutdown flag is set
WorkerExitOnShutdown ==
    /\ worker.pc = "select"
    /\ shutdown
    /\ worker' = [worker EXCEPT !.pc = "stopped"]
    /\ UNCHANGED <<dbVars, callVars, probe, dbCall, shutdown, lastSet, http, queue, tasks, req, workerDone>>

\* StartWorker, case <-ctx.Done(): return
WorkerExit ==
    /\ worker.pc = "select"
    /\ workerDone
    /\ worker' = [worker EXCEPT !.pc = "stopped"]
    /\ UNCHANGED <<dbVars, callVars, probe, dbCall, shutdown, lastSet, http, queue, tasks, req, workerDone>>

\* a receive that hands out the newest task of the buffer
WorkerTakeNewest ==
    /\ worker.pc = "select"
    /\ queue # <<>>
    /\ worker' = [worker EXCEPT !.pc = "build", !.task = queue[Len(queue)]]
    /\ queue' = SubSeq(queue, 1, Len(queue) - 1)
    /\ UNCHANGED <<dbVars, callVars, probe, dbCall, shutdown, lastSet, http, tasks, req, workerDone>>

\* a worker that goes on receiving after its loop has returned
WorkerTakeAfterExit ==
    /\ worker.pc \in {"select", "stopped"}
    /\ queue # <<>>
    /\ worker' = [worker EXCEPT !.pc = "build", !.task = Head(queue)]
    /\ queue' = Tail(queue)
    /\ UNCHANGED <<dbVars, callVars, probe, dbCall, shutdown, lastSet, http, tasks, req, workerDone>>

\* StartWorker, case task := <-urlchecker.pendingPDFTasks
WorkerTake ==
    /\ worker.pc = "select"
    /\ queue # <<>>
    /\ worker' = [worker EXCEPT !.pc = "build", !.task = Head(queue)]
    /\ queue' = Tail(queue)
    /\ UNCHANGED <<dbVars, callVars, probe, dbCall, shutdown, lastSet, http, tasks, req, workerDone>>

\* a build that runs under the context of the call that made the task
WorkerBuildCallerCtx ==
    /\ worker.pc = "build"
    /\ LET callerDone == \E r \in Requesters :
                            worker.task = TaskOf(r) /\ req[r].how = "cancelled"
           out == GeneratePDFReport(callerDone, tasks[worker.task].BatchIDs)
       IN worker' = [worker EXCEPT !.pc = "write", !.data = out.data, !.err = out.err]
    /\ UNCHANGED <<dbVars, callVars, probe, dbCall, shutdown, lastSet, http, queue, tasks, req, workerDone>>

\* processPDFTask: pdfData, err := urlchecker.GeneratePDFReport(ctx, task.BatchIDs)
WorkerBuild ==
    /\ worker.pc = "build"
    /\ LET out == GeneratePDFReport(workerDone, tasks[worker.task].BatchIDs)
       IN worker' = [worker EXCEPT !.pc = "write", !.data = out.data, !.err = out.err]
    /\ UNCHANGED <<dbVars, callVars, probe, dbCall, shutdown, lastSet, http, queue, tasks, req, workerDone>>

\* a send on a channel made without a buffer, nobody receiving
CanSendUnbuffered(ch) == Len(ch) < 0

\* a channel send: ready while the buffer has room
CanSend(ch) == Len(ch) < TaskChanCap

\* processPDFTask: task.Error <- err, or task.Result <- pdfData
WorkerWrite ==
    /\ worker.pc = "write"
    /\ IF worker.err # ErrNil
       THEN /\ CanSend(tasks[worker.task].Error)
            /\ tasks' = [tasks EXCEPT ![worker.task].Error = Append(@, worker.err)]
       ELSE /\ CanSend(tasks[worker.task].Result)
            /\ tasks' = [tasks EXCEPT ![worker.task].Result = Append(@, worker.data)]
    /\ worker' = [pc |-> "select", task |-> 0, data |-> NoBytes, err |-> ErrNil]
    /\ UNCHANGED <<dbVars, callVars, probe, dbCall, shutdown, lastSet, http, queue, req, workerDone>>

\* ------------------------------------------- the report builder, by steps
\* GetBatchesByIDs, up to its first query: the rows of the batches table
BatchQuery(ctxDone, ids) ==
    IF Len(ids) = 0
    THEN [rows |-> <<>>, err |-> "failed to get batches data: no batch IDs provided"]
    ELSE IF QueryErr(ctxDone) # ErrNil
    THEN [rows |-> <<>>, err |-> QueryErr(ctxDone)]
    ELSE [rows |-> BatchesByIDs(ids), err |-> ErrNil]

\* GetBatchesByIDs, its second query: the rows of the links table
LinkQuery(ctxDone, ids) ==
    IF QueryErr(ctxDone) # ErrNil
    THEN [rows |-> <<>>, err |-> QueryErr(ctxDone)]
    ELSE [rows |-> LinksByIDs(ids), err |-> ErrNil]

\* GeneratePDFReport after GetBatchesByIDs: the check for no batch, then the
\* document is rendered into a buffer of the call
Render(bs, ls) ==
    IF Len(bs) = 0
    THEN [data |-> NoBytes, err |-> "no valid batches found"]
    ELSE [data |-> [batches |-> bs, links |-> ls], err |-> ErrNil]

\* the positions of a caller and of the worker inside GeneratePDFReport
SyncPcs == {"sync", "sync links", "sync render"}
BuildPcs == {"build", "build links", "build render"}

\* a first query that leaves its rows in the worker's buffer as well
SyncGetBatchesShared(r) ==
    /\ req[r].pc = "sync"
    /\ LET q == BatchQuery(FALSE, req[r].ids) IN
        /\ req' = [req EXCEPT ![r].pc = "sync links",
                              ![r].data = [batches |-> q.rows, links |-> <<>>]]
        /\ worker' = [worker EXCEPT !.data = [batches |-> q.rows, links |-> <<>>]]
    /\ UNCHANGED <<dbVars, callVars, probe, dbCall, shutdown, lastSet, http, queue, tasks, workerDone>>

\* the default branch, GeneratePDFReport(ctx, batchIDs) step by step: the
\* first query of GetBatchesByIDs, the caller's context done or not
SyncGetBatches(r) ==
    /\ req[r].pc = "sync"
    /\ \E ctxDone \in BOOLEAN :
        LET q == BatchQuery(ctxDone, req[r].ids) IN
        IF q.err # ErrNil
        THEN ReportReturn(r, "sync error", NoBytes, q.err)
        ELSE req' = [req EXCEPT ![r].pc = "sync links",
                                ![r].data = [batches |-> q.rows, links |-> <<>>]]
    /\ UNCHANGED <<dbVars, callVars, probe, dbCall, shutdown, lastSet, http, queue, tasks, worker,
                   workerDone>>

\* the second query of GetBatchesByIDs
SyncGetLinks(r) ==
    /\ req[r].pc = "sync links"
    /\ \E ctxDone \in BOOLEAN :
        LET q == LinkQuery(ctxDone, req[r].ids) IN
        IF q.err # ErrNil
        THEN ReportReturn(r, "sync error", NoBytes, q.err)
        ELSE req' = [req EXCEPT ![r].pc = "sync render", ![r].data.links = q.rows]
    /\ UNCHANGED <<dbVars, callVars, probe, dbCall, shutdown, lastSet, http, queue, tasks, worker,
                   workerDone>>

\* the check for no batch, the rendering, and the return of the call
SyncRender(r) ==
    /\ req[r].pc = "sync render"
    /\ LET out == Render(req[r].data.batches, req[r].data.links) IN
        ReportReturn(r, IF out.err = ErrNil THEN "sync result" ELSE "sync error",
                     out.data, out.err)
    /\ UNCHANGED <<dbVars, callVars, probe, dbCall, shutdown, lastSet, http, queue, tasks, worker,
                   workerDone>>

\* processPDFTask, GeneratePDFReport(ctx, task.BatchIDs) step by step: the
\* first query, with the worker's context
WorkerGetBatches ==
    /\ worker.pc = "build"
    /\ LET q == BatchQuery(workerDone, tasks[worker.task].BatchIDs) IN
        IF q.err # ErrNil
        THEN worker' = [worker EXCEPT !.pc = "write", !.data = NoBytes, !.err = q.err]
        ELSE worker' = [worker EXCEPT !.pc = "build links",
                                      !.data = [batches |-> q.rows, links |-> <<>>]]
    /\ UNCHANGED <<dbVars, callVars, probe, dbCall, shutdown, lastSet, http, queue, tasks, req, workerDone>>

\* the second query
WorkerGetLinks ==
    /\ worker.pc = "build links"
    /\ LET q == LinkQuery(workerDone, tasks[worker.task].BatchIDs) IN
        IF q.err # ErrNil
        THEN worker' = [worker EXCEPT !.pc = "write", !.data = NoBytes, !.err = q.err]
        ELSE worker' = [worker EXCEPT !.pc = "build render", !.data.links = q.rows]
    /\ UNCHANGED <<dbVars, callVars, probe, dbCall, shutdown, lastSet, http, queue, tasks, req, workerDone>>

\* the check for no batch and the rendering
WorkerRender ==
    /\ worker.pc = "build render"
    /\ LET out == Render(worker.data.batches, worker.data.links) IN
        worker' = [worker EXCEPT !.pc = "write", !.data = out.data, !.err = out.err]
    /\ UNCHANGED <<dbVars, callVars, probe, dbCall, shutdown, lastSet, http, queue, tasks, req, workerDone>>

\* --------------------------------------------------------------- handlers
\* HTTP status codes
StatusOK == 200
StatusBadRequest == 400
StatusNotFound == 404
StatusInternalServerError == 500
StatusServiceUnavailable == 503

\* the {id} of GET /api/batch/{id}: no number, the stored batch, a batch that
\* is not stored
Invalid == "invalid"
PathIDs == {Invalid, "1", "2"}

\* strconv.Atoi on the path ids
Atoi(str) ==
    IF str = "1" THEN [n |-> 1, err |-> ErrNil]
    ELSE IF str = "2" THEN [n |-> 2, err |-> ErrNil]
    ELSE [n |-> 0, err |-> "invalid syntax"]

\* the handler has written its response
Reply(k, code) == http' = [http EXCEPT ![k].pc = "done", ![k].code = code]

\* a handler that does not look at the flag
AdmittedAlways == TRUE

\* the first statement of CheckLinksHandler, GetBatchStatusHandler and
\* ReportHandler: if h.service.IsShutdown() { 503; return }
Admitted == ~IsShutdown

HandlerAdmit(k) ==
    /\ http[k].pc = "idle"
    /\ IF Admitted
       THEN http' = [http EXCEPT ![k].pc = "decode"]
       ELSE Reply(k, StatusServiceUnavailable)
    /\ UNCHANGED <<dbVars, callVars, probe, dbCall, shutdown, lastSet, reportVars>>

\* CheckLinksHandler: Invalid JSON -> 400, no links -> 400, else
\* h.service.CheckLinks(req.Links)
CheckLinksHandlerCall ==
    /\ http["check"].pc = "decode"
    /\ \E decoded \in BOOLEAN, body \in Inputs(Reserved(MaxCalls)) :
        IF ~decoded \/ Len(body) = 0
        THEN /\ Reply("check", StatusBadRequest)
             /\ UNCHANGED <<dbVars, callVars, probe, dbCall, shutdown, lastSet, reportVars>>
        ELSE /\ CheckLinksEntry(1, body)
             /\ http' = [http EXCEPT !["check"].pc = "service"]

\* CheckLinksHandler: the response of h.service.CheckLinks; a panic of the
\* call ends the request without a response
CheckLinksHandlerReply ==
    /\ http["check"].pc = "service"
    /\ Done(1)
    /\ Reply("check", IF Succeeded(1) THEN StatusOK
                      ELSE IF Panicked(1) THEN 0
                      ELSE IF outcome[1] = "no links provided" THEN StatusBadRequest
                      ELSE StatusInternalServerError)
    /\ UNCHANGED <<dbVars, callVars, probe, dbCall, shutdown, lastSet, reportVars>>

\* ReportHandler: Invalid JSON -> 400, no batch IDs -> 400, else
\* h.service.GeneratePDFReportAsync(req.LinksList)
ReportHandlerCall ==
    /\ http["report"].pc = "decode"
    /\ \E decoded \in BOOLEAN, body \in {<<>>} \cup ReportIDs :
        IF ~decoded \/ Len(body) = 0
        THEN /\ Reply("report", StatusBadRequest)
             /\ UNCHANGED <<dbVars, callVars, probe, dbCall, shutdown, lastSet, reportVars>>
        ELSE /\ GeneratePDFReportAsync(1, body)
             /\ http' = [http EXCEPT !["report"].pc = "service"]

\* ReportHandler: the bytes, or 500 "Failed to generate report"
ReportHandlerReply ==
    /\ http["report"].pc = "service"
    /\ req[1].pc = "done"
    /\ Reply("report", IF req[1].how \in {"result", "sync result"} THEN StatusOK
                       ELSE StatusInternalServerError)
    /\ UNCHANGED <<dbVars, callVars, probe, dbCall, shutdown, lastSet, reportVars>>

\* URLChecker.GetBatchStatus: 'batch not found' if GetLinksByBatchNum returns
\* an error, else the statuses of the rows it returned and the id
GetBatchStatus(queryFails, id) ==
    IF queryFails
    THEN [resp |-> EmptyResponse, err |-> "batch not found"]
    ELSE [resp |-> [Links |-> LinksByURL(GetLinksByBatchNum(id)), LinksNum |-> id],
          err |-> ErrNil]

\* GetBatchStatusHandler: Invalid batch ID -> 400; h.service.GetBatchStatus(id):
\* 404 for 'batch not found', else the response
GetBatchStatusHandlerCall ==
    /\ http["status"].pc = "decode"
    /\ \E idStr \in PathIDs, queryFails \in BOOLEAN :
        LET id == Atoi(idStr) IN
        IF id.err # ErrNil
        THEN Reply("status", StatusBadRequest)
        ELSE LET out == GetBatchStatus(queryFails, id.n) IN
             http' = [http EXCEPT !["status"] =
                        [pc |-> "done", id |-> id.n,
                         code |-> IF out.err = "batch not found" THEN StatusNotFound
                                  ELSE IF out.err # ErrNil THEN StatusInternalServerError
                                  ELSE StatusOK]]
    /\ UNCHANGED <<dbVars, callVars, probe, dbCall, shutdown, lastSet, reportVars>>

Next ==
    \/ \E p \in Calls : Start(p)
    \/ \E p \in Calls : Cancel(p)
    \/ \E p \in Calls : GetNextID(p)
    \/ \E p \in Calls : CreateBatch(p)
    \/ \E p \in Calls : CreateLink(p)
    \/ \E p \in Calls : MarkFailed(p)
    \/ \E p \in Calls : \E i \in DOMAIN units[p] : UnitProbe(p, i)
    \/ \E p \in Calls : \E i \in DOMAIN units[p] : UnitCheck(p, i)
    \/ \E p \in Calls : \E i \in DOMAIN units[p] : UnitPersist(p, i)
    \/ \E p \in Calls : Join(p)

Spec == Init /\ [][Next]_vars

\* ---------------------------------------------- the report queue on its own
\* the store holds batch 1; no CheckLinks call runs; the queue holds the tasks
\* that earlier requesters left behind
ReportInit ==
    /\ batches = StoredBatches
    /\ links = StoredLinks
    /\ CallsIdle
    /\ \E n \in Prefills : ServiceIdle(n)

\* the steps of the report calls and of the worker
QueueNext ==
    \/ \E r \in Requesters : Request(r)
    \/ \E r \in Requesters : Enqueue(r)
    \/ \E r \in Requesters : BuildSync(r)
    \/ \E r \in Requesters : WaitResult(r)
    \/ \E r \in Requesters : WaitError(r)
    \/ \E r \in Requesters : WaitTimeout(r)
    \/ \E r \in Requesters : WaitCancelled(r)
    \/ WorkerTake
    \/ WorkerBuild
    \/ WorkerWrite

ReportNext ==
    \/ \E b \in BOOLEAN : SetShutdown(b)
    \/ QueueNext

ReportSpec == ReportInit /\ [][ReportNext]_vars

\* the timer of a waiting call fires after 30 seconds and the call, blocked in
\* its select, is then run; nothing is assumed of the worker, of the callers'
\* contexts or of the calls that have not reached their select
ReportLiveSpec ==
    /\ ReportInit
    /\ [][QueueNext]_vars
    /\ \A r \in Requesters : WF_vars(WaitTimeout(r))

\* ------------------------------------------- one request and the lifecycle
\* no request has been made
Quiet ==
    /\ \A p \in Calls : pc[p] = "idle"
    /\ \A r \in Requesters : req[r].pc = "idle"
    /\ \A k \in Routes : http[k].pc = "idle"

\* the store holds batch 1, the queue is empty or full
ServiceInit ==
    /\ batches = StoredBatches
    /\ links = StoredLinks
    /\ CallsIdle
    /\ \E n \in Prefills : ServiceIdle(n)

\* one request, on a route or on the service itself, while the flag is set
\* and cleared
ServiceNext ==
    \/ \E b \in BOOLEAN : SetShutdown(b)
    \/ \E k \in Routes : Quiet /\ HandlerAdmit(k)
    \/ CheckLinksHandlerCall
    \/ CheckLinksHandlerReply
    \/ ReportHandlerCall
    \/ ReportHandlerReply
    \/ GetBatchStatusHandlerCall
    \/ \E p \in Calls : Quiet /\ Start(p)
    \/ \E p \in Calls : Cancel(p)
    \/ \E p \in Calls : GetNextID(p)
    \/ \E p \in Calls : CreateBatch(p)
    \/ \E p \in Calls : CreateLink(p)
    \/ \E p \in Calls : MarkFailed(p)
    \/ \E p \in Calls : \E i \in DOMAIN units[p] : UnitProbe(p, i)
    \/ \E p \in Calls : \E i \in DOMAIN units[p] : UnitCheck(p, i)
    \/ \E p \in Calls : \E i \in DOMAIN units[p] : UnitPersist(p, i)
    \/ \E p \in Calls : Join(p)
    \/ \E r \in Requesters : Quiet /\ Request(r)
    \/ \E r \in Requesters : Enqueue(r)
    \/ \E r \in Requesters : BuildSync(r)
    \/ \E r \in Requesters : WaitResult(r)
    \/ \E r \in Requesters : WaitError(r)
    \/ \E r \in Requesters : WaitTimeout(r)
    \/ \E r \in Requesters : WaitCancelled(r)
    \/ WorkerTake
    \/ WorkerBuild
    \/ WorkerWrite

ServiceSpec == ServiceInit /\ [][ServiceNext]_vars

\* ------------------------------------------- the worker and its context
\* one report call, the worker, the flag, and the cancellation of the context
\* that main passes to StartWorker
WorkerNext ==
    \/ \E b \in BOOLEAN : SetShutdown(b)
    \/ CancelWorker
    \/ WorkerExit
    \/ WorkerTake
    \/ WorkerBuild
    \/ WorkerWrite
    \/ \E r \in Requesters : Quiet /\ Request(r)
    \/ \E r \in Requesters : Enqueue(r)
    \/ \E r \in Requesters : BuildSync(r)
    \/ \E r \in Requesters : WaitResult(r)
    \/ \E r \in Requesters : WaitError(r)
    \/ \E r \in Requesters : WaitTimeout(r)
    \/ \E r \in Requesters : WaitCancelled(r)

\* the worker goroutine is scheduled: a build and a write that can run do run;
\* a select with two ready cases picks one of them at random, so the ready
\* ctx.Done() case is not passed over for ever
WorkerLiveSpec ==
    /\ ReportInit
    /\ [][WorkerNext]_vars
    /\ WF_vars(WorkerBuild)
    /\ WF_vars(WorkerWrite)
    /\ SF_vars(WorkerExit)

\* ------------------------------------------------ the report builder alone
\* GeneratePDFReport over stores of 0..MaxRows batches
BuilderInit ==
    /\ \E n \in 0..MaxRows : batches = StoreBatches(n) /\ links = StoreLinks(n)
    /\ CallsIdle
    /\ ServiceIdle(0)

BuilderNext == \E r \in Requesters : BuildDirect(r)

BuilderSpec == BuilderInit /\ [][BuilderNext]_vars

\* ------------------------------------------ report calls with any argument
\* a new store or the store with batch 1; the queue empty or full
InputInit ==
    /\ \/ batches = <<>> /\ links = <<>>
       \/ batches = StoredBatches /\ links = StoredLinks
    /\ CallsIdle
    /\ \E n \in Prefills : ServiceIdle(n)

InputNext ==
    \/ \E r \in Requesters : RequestAny(r)
    \/ \E r \in Requesters : Enqueue(r)
    \/ \E r \in Requesters : BuildSync(r)
    \/ \E r \in Requesters : WaitResult(r)
    \/ \E r \in Requesters : WaitError(r)
    \/ \E r \in Requesters : WaitTimeout(r)
    \/ \E r \in Requesters : WaitCancelled(r)
    \/ WorkerTake
    \/ WorkerBuild
    \/ WorkerWrite

InputSpec == InputInit /\ [][InputNext]_vars

\* ---------------------------------------------- builds that run together
\* the report calls and the worker, every build taken query by query, so that
\* the builds of the fallback callers and of the worker interleave
ConcurrentNext ==
    \/ \E r \in Requesters : Request(r)
    \/ \E r \in Requesters : Enqueue(r)
    \/ \E r \in Requesters : SyncGetBatches(r)
    \/ \E r \in Requesters : SyncGetLinks(r)
    \/ \E r \in Requesters : SyncRender(r)
    \/ \E r \in Requesters : WaitResult(r)
    \/ \E r \in Requesters : WaitError(r)
    \/ \E r \in Requesters : WaitTimeout(r)
    \/ \E r \in Requesters : WaitCancelled(r)
    \/ WorkerTake
    \/ WorkerGetBatches
    \/ WorkerGetLinks
    \/ WorkerRender
    \/ WorkerWrite

ConcurrentSpec == ReportInit /\ [][ConcurrentNext]_vars

\* -------------------------------------- one call, a server out of order
FlakyNext ==
    \/ \E p \in Calls : StartFlaky(p)
    \/ \E p \in Calls : Cancel(p)
    \/ \E p \in Calls : GetNextID(p)
    \/ \E p \in Calls : CreateBatch(p)
    \/ \E p \in Calls : CreateLink(p)
    \/ \E p \in Calls : MarkFailed(p)
    \/ \E p \in Calls : \E i \in DOMAIN units[p] : UnitProbe(p, i)
    \/ \E p \in Calls : \E i \in DOMAIN units[p] : UnitCheck(p, i)
    \/ \E p \in Calls : \E i \in DOMAIN units[p] : UnitPersist(p, i)
    \/ \E p \in Calls : Join(p)

FlakySpec == Init /\ [][FlakyNext]_vars

\* --------------------------------------------- the persistence layer alone
\* direct calls on stores of 0..MaxRows batches of one link each
DbNext ==
    \/ DbCreateBatch
    \/ DbUpdateLinkStatus
    \/ DbUpdateBatchStatus

DbSpec == BuilderInit /\ [][DbNext]_vars

\* ------------------------------------------------------- the prober alone
ProbeNext == ProbeDirect

ProbeSpec == Init /\ [][ProbeNext]_vars

TypeOK ==
    /\ faults \in 0..MaxFaults
    /\ \A p \in Calls : pc[p] \in {"idle", "getNextID", "createBatch", "createLinks",
                                   "markFailed", "fanout", "done"}
    /\ \A i \in DOMAIN links : links[i].id = i

\* ------------------------------------------------------------------- C1
\* C1: no two successful CheckLinks calls return the same LinksNum, and no
\* two rows of the batches table have the same links_num, whatever the
\* interleaving of the calls' getNextID and CreateBatch steps.
C1_UniqueBatchNumbers ==
    /\ \A p, q \in Calls :
          p # q /\ Succeeded(p) /\ Succeeded(q)
             => response[p].LinksNum # response[q].LinksNum
    /\ \A p, q \in Calls :
          p # q /\ created[p] /\ created[q] => batchNum[p] # batchNum[q]
    /\ \A i, j \in DOMAIN batches :
          i # j => batches[i].links_num # batches[j].links_num

\* two calls read the same maximum, and the one that inserted first succeeded
C1_Witness ==
    \E p, q \in Calls :
        /\ p # q
        /\ Succeeded(p) /\ Done(q)
        /\ batchNum[q] = batchNum[p]
        /\ response[p].LinksNum = batchNum[p]

\* ------------------------------------------------------------------- C2
\* C2: no CheckLinks call with non-empty input fails because a racing call
\* inserted the batch number it had read (allocation is serialized or retried).
C2_NoLostRace ==
    \A p \in Calls :
        ~(Done(p) /\ outcome[p] = "failed to create batch" /\ cause[p] = ErrConstraint)

\* ------------------------------------------------------------------- C3
\* C3: the batch number a successful CheckLinks call returns is at least 1 and
\* greater than every batch number that existed when the call began.
C3_FreshBatchNumber ==
    \A p \in Calls :
        Succeeded(p) => /\ response[p].LinksNum >= 1
                        /\ response[p].LinksNum > startMax[p]

\* a call succeeded that began when batches already existed
C3_Witness == \E p \in Calls : Succeeded(p) /\ startMax[p] >= 1

\* ------------------------------------------------------------------- C4
\* C4: a call whose context was cancelled during the fan-out, while units were
\* still running, ends with an error that reports the cancellation.
C4_CancelDuringFanoutReported ==
    \A p \in Calls :
        Done(p) /\ cancelAt[p] \in {"fanout, no unit finished", "fanout, some unit finished"}
            => FailedCanceled(p)

\* ------------------------------------------------------------------- C5
\* C5: a call whose context was cancelled before any of its units finished
\* (at entry included) fails with 'context canceled', returns no results, and
\* all link rows of its batch still have status processing.
C5_EarlyCancelFails ==
    \A p \in Calls :
        Done(p) /\ cancelAt[p] \in {"entry", "admission", "fanout, no unit finished"}
            => /\ FailedCanceled(p)
               /\ response[p] = EmptyResponse
               /\ created[p] =>
                     \A i \in DOMAIN links :
                         links[i].batch_num = batchNum[p] => links[i].status = StatusProcessing

\* ------------------------------------------------------------------- C6
\* C6: once all units of a batch have joined, the batch has persisted status
\* completed, also when cancellation left result slots empty (stated for the
\* runs in which no statement fails for a reason of its own).
C6_JoinedBatchCompleted ==
    \A p \in Calls :
        Joined(p) /\ faults = 0 => GetBatch(batchNum[p]).status = BatchStatusCompleted

\* ------------------------------------------------------------------- C7
\* C7: a batch's status only moves processing -> completed or processing ->
\* failed and never changes afterwards, and by the time the call that created
\* the batch returns, the status has been set to a terminal value (stated for
\* the runs in which no statement fails for a reason of its own).
C7_StatusLifecycle ==
    [][/\ \A i \in DOMAIN batches :
            batches'[i].status # batches[i].status
               => /\ batches[i].status = BatchStatusProcessing
                  /\ Terminal(batches'[i].status)
       /\ \A p \in Calls :
            created[p] /\ ~Done(p) /\ pc'[p] = "done" /\ faults' = 0
               => Terminal(batches'[CHOOSE i \in DOMAIN batches :
                                       batches[i].links_num = batchNum[p]].status)
      ]_vars

\* ------------------------------------------------------------------- C8
\* C8 as claimed: no link row of a batch with a terminal status has status
\* processing.
C8_NoProcessingLinkInTerminalBatch ==
    \A i \in DOMAIN links :
        Terminal(GetBatch(links[i].batch_num).status) => links[i].status # StatusProcessing

\* C8 amended: in a completed batch a link row has status processing only if
\* the status update of that link returned an error (logged and swallowed);
\* the link rows of a batch marked failed all keep status processing.
C8_ProcessingOnlyAfterFailedUpdate ==
    \A i \in DOMAIN links :
        LET status == GetBatch(links[i].batch_num).status IN
        /\ status = BatchStatusCompleted /\ links[i].status = StatusProcessing
              => i \in updFailed
        /\ status = BatchStatusFailed => links[i].status = StatusProcessing

\* a completed batch holds a link that left processing and one whose update failed
C8_Witness ==
    \E i, j \in DOMAIN links :
        /\ links[i].batch_num = links[j].batch_num
        /\ GetBatch(links[i].batch_num).status = BatchStatusCompleted
        /\ Verdict(links[i].status)
        /\ links[j].status = StatusProcessing /\ j \in updFailed

\* ------------------------------------------------------------------- C9
\* C9: a link row has a non-null time if and only if its status is available
\* or not available.
C9_TimestampIffVerdict ==
    \A i \in DOMAIN links : (links[i].time # NULL) <=> Verdict(links[i].status)

\* units have written each of the two verdicts, with a time
C9_Witness ==
    \E j, k \in DOMAIN links :
        /\ links[j].status = StatusAvailable /\ links[j].time # NULL
        /\ links[k].status = StatusNotAvailable /\ links[k].time # NULL

\* ------------------------------------------------------------------ C10
\* C10: a link row changes only once, from processing to a verdict, in the
\* persist step of the unit that owns it, and never after its batch has been
\* marked completed: reading the links of a completed batch returns the same
\* rows after every step.
C10_LinkMutatedOnceByItsUnit ==
    [][/\ \A i \in DOMAIN links :
            links'[i] # links[i]
               => /\ links[i].status = StatusProcessing
                  /\ Verdict(links'[i].status)
                  /\ GetBatch(links[i].batch_num).status # BatchStatusCompleted
                  /\ \E p \in Calls : \E k \in DOMAIN units[p] :
                        /\ units[p][k].pc = "persist"
                        /\ linkIDs[p][k] = i
                        /\ batchNum[p] = links[i].batch_num
                        /\ units'[p][k].pc = "exit"
       /\ \A b \in DOMAIN batches :
            batches[b].status = BatchStatusCompleted
               => GetLinksByBatchNum(batches[b].links_num)'
                     = GetLinksByBatchNum(batches[b].links_num)
      ]_vars

\* one batch is completed with all its links settled while a unit of another
\* call is about to persist
C10_Witness ==
    \E p, q \in Calls :
        /\ p # q
        /\ Succeeded(p)
        /\ GetBatch(batchNum[p]).status = BatchStatusCompleted
        /\ \A i \in DOMAIN links : links[i].batch_num = batchNum[p] => Verdict(links[i].status)
        /\ pc[q] = "fanout"
        /\ \E k \in DOMAIN units[q] : units[q][k].pc = "persist"

\* ------------------------------------------------------------------ C11
\* C11: a CheckLinks call with a non-empty address list whose context is not
\* cancelled succeeds, and its response has exactly one entry per distinct
\* input address, each a verdict (stated for the runs in which no statement
\* fails for a reason of its own).
C11_OneVerdictPerAddress ==
    \A p \in Calls :
        Done(p) /\ Len(input[p]) > 0 /\ ~cancelled[p] /\ faults = 0
            => /\ Succeeded(p)
               /\ DOMAIN response[p].Links = {input[p][i] : i \in DOMAIN input[p]}
               /\ \A u \in DOMAIN response[p].Links : Verdict(response[p].Links[u])

\* ------------------------------------------------------------------ C12
\* C12: a CheckLinks call with an empty (or nil) address list returns at once
\* with the error 'no links provided' and the empty response, and the step
\* changes neither table: no batch number is allocated, no row is created.
C12_EmptyListRejected ==
    [][\A p \in Calls :
          pc[p] = "idle" /\ pc'[p] # "idle" /\ Len(input'[p]) = 0
             => /\ pc'[p] = "done"
                /\ outcome'[p] = "no links provided"
                /\ cause'[p] = "no links provided"
                /\ response'[p] = EmptyResponse
                /\ batchNum'[p] = 0 /\ ~created'[p]
                /\ batches' = batches /\ links' = links
      ]_vars

\* an empty list was rejected while the tables hold the rows of another call
C12_Witness ==
    \E p \in Calls :
        /\ Done(p) /\ Len(input[p]) = 0 /\ outcome[p] = "no links provided"
        /\ Len(batches) > 0 /\ Len(links) > 0

\* ------------------------------------------------------------------ C13
\* C13: CheckLinks entered on the service with a non-empty list while the
\* shutdown flag is set returns at once with 'service is shutting down' and
\* the empty response, and creates no batch and no link.
C13_CheckLinksRejectedOnShutdown ==
    [][\A p \in Calls :
          pc[p] = "idle" /\ pc'[p] # "idle" /\ Len(input'[p]) > 0 /\ shutdown
             => /\ pc'[p] = "done"
                /\ outcome'[p] = "service is shutting down"
                /\ response'[p] = EmptyResponse
      ]_vars

\* ------------------------------------------------------------------ C14
\* C14: a request that reaches the check, report or batch-status handler
\* while the shutdown flag is set is answered 503 in the handler's first step,
\* and nothing else happens for it: no CheckLinks call and no report call is
\* made, no batch or link row is written, no task is made or queued.
C14_HandlersRejectOnShutdown ==
    /\ [][\A k \in Routes :
             http[k].pc = "idle" /\ http'[k].pc # "idle" /\ shutdown
                => /\ http'[k] = [pc |-> "done", code |-> StatusServiceUnavailable, id |-> 0]
                   /\ <<dbVars, callVars, reportVars>>' = <<dbVars, callVars, reportVars>>
         ]_vars
    /\ [](\A k \in Routes :
             http[k].code = StatusServiceUnavailable
                => /\ http[k].pc = "done"
                   /\ \A p \in Calls : pc[p] = "idle"
                   /\ \A r \in Requesters : req[r].pc = "idle" /\ tasks[TaskOf(r)] = NoTask
                   /\ batches = StoredBatches /\ links = StoredLinks
                   /\ \A i \in DOMAIN queue : queue[i] <= QueueCap)

\* the check route has answered 503 while tasks are queued
C14_Witness ==
    /\ http["check"] = [pc |-> "done", code |-> StatusServiceUnavailable, id |-> 0]
    /\ shutdown
    /\ Len(queue) > 0

\* ------------------------------------------------------------------ C15
\* C15: IsShutdown returns the argument of the last SetShutdown (false at the
\* start); a SetShutdown step changes nothing but the flag; work that has
\* passed admission is not ended by the flag: a CheckLinks call with a
\* non-empty list that is not cancelled and meets no failing statement
\* succeeds whatever the flag does meanwhile, and a report call ends with
\* 'service is shutting down' only at its entry, before its task was made.
C15_FlagOnlyBlocksAdmission ==
    /\ [](IsShutdown = lastSet)
    /\ [][shutdown' # shutdown
             => <<dbVars, callVars, http, reportVars>>' = <<dbVars, callVars, http, reportVars>>
         ]_vars
    /\ [](\A p \in Calls :
             /\ outcome[p] # "service is shutting down"
             /\ Done(p) /\ Len(input[p]) > 0 /\ ~cancelled[p] /\ faults = 0
                   => Succeeded(p))
    /\ [](\A r \in Requesters :
             req[r].err = "service is shutting down" => tasks[TaskOf(r)] = NoTask)

\* the flag is set while a call admitted before is in its fan-out with a unit
\* about to persist
C15_Witness ==
    /\ shutdown
    /\ \E p \in Calls :
          /\ pc[p] = "fanout" /\ ~cancelled[p]
          /\ \E i \in DOMAIN units[p] : units[p][i].pc = "persist"

\* ------------------------------------------------------------------ C16
\* C16: the queue never holds more than QueueCap (10) tasks; a call that
\* reaches the send while the queue holds 10 tasks is not blocked and does not
\* enqueue: it takes the default branch, and ends there with the outcome of
\* GeneratePDFReport run by the caller itself, its task never being queued,
\* taken by the worker or written to.
C16_FullQueueFallsBackToSync ==
    /\ [](Len(queue) <= QueueCap)
    /\ [](\A r \in Requesters : req[r].pc = "enqueue" => ENABLED Enqueue(r))
    /\ [][\A r \in Requesters :
             /\ req[r].pc = "enqueue" /\ req'[r].pc # "enqueue" /\ Len(queue) = QueueCap
                   => req'[r].pc = "sync" /\ queue' = queue
             /\ req[r].pc = "sync" /\ req'[r] # req[r]
                   => /\ req'[r].pc = "done"
                      /\ \E ctxDone \in BOOLEAN :
                            LET out == GeneratePDFReport(ctxDone, req[r].ids)
                            IN req'[r].data = out.data /\ req'[r].err = out.err
                      /\ <<queue, tasks, worker>>' = <<queue, tasks, worker>>
         ]_vars
    /\ [](\A r \in Requesters :
             (req[r].pc = "sync" \/ req[r].how \in {"sync result", "sync error"})
                => /\ \A i \in DOMAIN queue : queue[i] # TaskOf(r)
                   /\ worker.task # TaskOf(r)
                   /\ tasks[TaskOf(r)] = NewTask(req[r].ids))

\* the queue holds 10 tasks, one of them of a waiting requester, and another
\* requester has returned the document it built itself
C16_Witness ==
    \E r, q \in Requesters :
        /\ req[r].pc = "done" /\ req[r].how = "sync result"
        /\ req[q].pc = "wait"
        /\ Len(queue) = QueueCap
        /\ \E i \in DOMAIN queue : queue[i] = TaskOf(q)

\* ------------------------------------------------------------------ C17
\* C17: GeneratePDFReportAsync entered while the shutdown flag is set returns
\* at once with 'service is shutting down' and no bytes; the step makes no
\* task, leaves the queue, the worker and the tables as they are, and no
\* report is built for the call afterwards.
C17_ReportRejectedOnShutdown ==
    /\ [][\A r \in Requesters :
             req[r].pc = "idle" /\ req'[r].pc # "idle" /\ shutdown
                => /\ req'[r].pc = "done"
                   /\ req'[r].err = "service is shutting down"
                   /\ req'[r].data = NoBytes
                   /\ <<queue, tasks, worker, dbVars>>' = <<queue, tasks, worker, dbVars>>
         ]_vars
    /\ [](\A r \in Requesters :
             req[r].err = "service is shutting down"
                => /\ req[r].pc = "done"
                   /\ tasks[TaskOf(r)] = NoTask
                   /\ worker.task # TaskOf(r)
                   /\ \A i \in DOMAIN queue : queue[i] # TaskOf(r))

\* a call was rejected while tasks are queued, one of them of a requester
\* that was admitted before the flag was set
C17_Witness ==
    \E r, q \in Requesters :
        /\ req[r].pc = "done" /\ req[r].err = "service is shutting down"
        /\ req[q].pc = "wait"
        /\ \E i \in DOMAIN queue : queue[i] = TaskOf(q)

\* ------------------------------------------------------------------ C18
\* C18: a call that waits on its queued task ends in one step with exactly
\* one of four outcomes: the bytes of the report of its own batch list, the
\* error of that report, 'PDF generation timeout', or the error of its
\* cancelled context; once it has returned, its outcome never changes.
C18_ExactlyOneOutcome ==
    [][\A r \in Requesters :
          /\ req[r].pc = "wait" /\ req'[r] # req[r]
                => LET own == GeneratePDFReport(FALSE, req[r].ids)
                       after == req'[r]
                   IN /\ after.pc = "done" /\ after.ids = req[r].ids
                      /\ \/ /\ after.how = "result" /\ own.err = ErrNil
                            /\ after.data = own.data /\ after.err = ErrNil
                         \/ /\ after.how = "error" /\ own.err # ErrNil
                            /\ after.data = NoBytes /\ after.err = own.err
                         \/ /\ after.how = "timeout"
                            /\ after.data = NoBytes /\ after.err = "PDF generation timeout"
                         \/ /\ after.how = "cancelled"
                            /\ after.data = NoBytes /\ after.err = ErrCanceled
          /\ req[r].pc = "done" => req'[r] = req[r]
      ]_vars

\* two queued calls have returned, one with the bytes of its report and one
\* with the error of its own
C18_Witness ==
    \E r, q \in Requesters :
        /\ req[r].pc = "done" /\ req[r].how = "result" /\ req[r].ids = StoredIDs
        /\ req[q].pc = "done" /\ req[q].how = "error" /\ req[q].ids = MissingIDs

\* ------------------------------------------------------------------ C19
\* C19: a call that waits on its queued task eventually returns, whether or
\* not the worker ever takes the task and whether or not the caller's context
\* is ever cancelled.
C19_QueuedCallReturns ==
    \A r \in Requesters : (req[r].pc = "wait") ~> (req[r].pc = "done")

\* a call has returned by timeout while its task is still queued behind the
\* tasks the worker has not taken
C19_Witness ==
    \E r \in Requesters :
        /\ req[r].pc = "done" /\ req[r].how = "timeout"
        /\ worker.pc = "select"
        /\ Len(queue) > 1
        /\ queue[Len(queue)] = TaskOf(r)

\* ------------------------------------------------------------------ C20
\* C20: the worker's write of a task's outcome is never blocked, also when
\* the requester of the task has returned; the write puts one value into one
\* of the two channels of the task the worker took (Result if the build
\* succeeded, Error if not) and changes no other channel; no other step puts
\* a value into a channel; a task gets at most one value, and a task that got
\* one is neither queued nor in the worker's hands again.
C20_WorkerWriteNeverBlocks ==
    /\ [](worker.pc = "write" => ENABLED WorkerWrite)
    /\ [][/\ worker.pc = "write" /\ worker' # worker
                => LET t == worker.task IN
                   /\ worker'.pc = "select"
                   /\ IF worker.err = ErrNil
                      THEN /\ tasks'[t].Result = Append(tasks[t].Result, worker.data)
                           /\ tasks'[t].Error = tasks[t].Error
                      ELSE /\ tasks'[t].Error = Append(tasks[t].Error, worker.err)
                           /\ tasks'[t].Result = tasks[t].Result
                   /\ \A u \in TaskIDs \ {t} : tasks'[u] = tasks[u]
          /\ \A t \in TaskIDs :
                (Len(tasks'[t].Result) > Len(tasks[t].Result)
                   \/ Len(tasks'[t].Error) > Len(tasks[t].Error))
                => /\ worker.pc = "write" /\ worker.task = t
                   /\ worker'.pc = "select"
         ]_vars
    /\ [](\A t \in TaskIDs :
             /\ Len(tasks[t].Result) + Len(tasks[t].Error) <= 1
             /\ (tasks[t].Result # <<>> \/ tasks[t].Error # <<>>)
                   => /\ worker.task # t
                      /\ \A i \in DOMAIN queue : queue[i] # t)
    /\ [](\A i, j \in DOMAIN queue :
             (i # j => queue[i] # queue[j]) /\ queue[i] # worker.task)

\* the worker has written the bytes for a call that had returned by timeout,
\* and holds the next task, about to write
C20_Witness ==
    \E r \in Requesters :
        /\ req[r].pc = "done" /\ req[r].how = "timeout"
        /\ tasks[TaskOf(r)].Result # <<>>
        /\ worker.pc = "write"

\* ------------------------------------------------------------------ C21
\* the task has been sent to pendingPDFTasks: it was in the buffer when the
\* service was made, or its requester has passed the send
Enqueued(t) ==
    \/ t <= QueueCap /\ tasks[t].BatchIDs # <<>>
    \/ \E r \in Requesters :
          /\ t = TaskOf(r)
          /\ \/ req[r].pc = "wait"
             \/ req[r].pc = "done"
                /\ req[r].how \in {"result", "error", "timeout", "cancelled"}

\* processPDFTask has written the outcome of the task (the requester may have
\* received it since)
Written(t) ==
    \/ tasks[t].Result # <<>>
    \/ tasks[t].Error # <<>>
    \/ \E r \in Requesters :
          t = TaskOf(r) /\ req[r].pc = "done" /\ req[r].how \in {"result", "error"}

\* C21: the queue changes only by a send that appends a task never queued
\* before at its tail, or by the worker, idle in its select, receiving the task
\* at its head; when the worker starts on a task every task queued before it
\* (every queued task that is no longer in the queue) has its outcome written;
\* the worker holds one task at a time, and a task that was queued is in
\* exactly one place: in the queue once, in the worker's hands, or written.
C21_WorkerServesFIFO ==
    /\ [][/\ queue' # queue
                => \/ \E r \in Requesters :
                         /\ req[r].pc = "enqueue" /\ req'[r].pc = "wait"
                         /\ ~Enqueued(TaskOf(r))
                         /\ queue' = Append(queue, TaskOf(r))
                         /\ worker' = worker
                   \/ /\ queue # <<>> /\ queue' = Tail(queue)
                      /\ worker.pc = "select"
                      /\ worker'.pc = "build" /\ worker'.task = Head(queue)
          /\ (worker'.pc = "build" /\ worker.pc # "build")
                => /\ worker.pc = "select" /\ queue # <<>>
                   /\ worker'.task = Head(queue) /\ queue' = Tail(queue)
                   /\ \A u \in TaskIDs :
                         (Enqueued(u) /\ \A i \in DOMAIN queue : queue[i] # u)
                            => Written(u)
          /\ (worker.pc \in {"build", "write"} /\ worker' # worker)
                => \/ worker'.pc = "write" /\ worker'.task = worker.task
                   \/ /\ worker'.pc = "select"
                      /\ \E t \in TaskIDs : t = worker.task /\ Written(t)'
         ]_vars
    /\ [](\A t \in TaskIDs :
             LET inQueue == {i \in DOMAIN queue : queue[i] = t}
                 inHand == worker.pc \in {"build", "write"} /\ worker.task = t
             IN /\ Cardinality(inQueue) <= 1
                /\ Enqueued(t) <=> (inQueue # {} \/ inHand \/ Written(t))
                /\ ~(inQueue # {} /\ inHand)
                /\ ~(inQueue # {} /\ Written(t))
                /\ ~(inHand /\ Written(t)))

\* the worker builds the report of a call's task while the task of another
\* call, queued before it, has its outcome written and is not yet received
C21_Witness ==
    \E r, q \in Requesters :
        /\ r # q
        /\ worker.pc = "build" /\ worker.task = TaskOf(r)
        /\ Written(TaskOf(q))
        /\ req[q].pc = "wait"

\* ------------------------------------------------------------------ C22
\* C22: once the context of StartWorker is done (it stays done) the worker
\* loop eventually returns; the loop returns only from its select and only
\* with the context done, whatever the shutdown flag is, and while the context
\* is not done the worker in its select takes a queued task also with the flag
\* set; after the loop has returned the worker never changes again: it takes
\* no task from the queue and no task gets an outcome.
C22_WorkerExitsOnContextOnly ==
    /\ workerDone ~> (worker.pc = "stopped")
    /\ [][/\ workerDone => workerDone'
          /\ (worker'.pc = "stopped" /\ worker.pc # "stopped")
                => workerDone /\ worker.pc = "select" /\ shutdown' = shutdown
          /\ worker.pc = "stopped"
                => /\ worker' = worker
                   /\ queue' = queue \/ \E t \in TaskIDs : queue' = Append(queue, t)
                   /\ \A t \in TaskIDs :
                         /\ Len(tasks'[t].Result) <= Len(tasks[t].Result)
                         /\ Len(tasks'[t].Error) <= Len(tasks[t].Error)
         ]_vars
    /\ [](worker.pc = "stopped" => workerDone)
    /\ []((~workerDone /\ worker.pc = "select" /\ queue # <<>>) => ENABLED WorkerTake)

\* the loop has returned while the flag is not set, and the task of a call
\* that still waits is left in the queue
C22_Witness ==
    /\ worker.pc = "stopped"
    /\ ~shutdown
    /\ \E r \in Requesters :
          /\ req[r].pc = "wait"
          /\ \E i \in DOMAIN queue : queue[i] = TaskOf(r)

\* ------------------------------------------------------------------ C23
\* the numbers of a batchIDs argument
Requested(ids) == {ids[i] : i \in DOMAIN ids}

\* C23: GeneratePDFReport called with a context that is not done returns
\* 'no batch IDs provided' and no bytes for an empty list, 'no valid batches
\* found' and no bytes when no requested number is the number of a stored
\* batch, and otherwise no error and a document that holds each stored batch
\* whose number was requested once, no other batch, and the links of exactly
\* these batches; a requested number that is not stored leaves no trace.
C23_ReportOutcomeByInput ==
    \A r \in Requesters :
        req[r].how = "direct" =>
            LET ids == req[r].ids
                doc == req[r].data
                found == {b \in DOMAIN batches : batches[b].links_num \in Requested(ids)}
                foundLinks == {l \in DOMAIN links : links[l].batch_num \in Requested(ids)}
            IN IF Len(ids) = 0
               THEN /\ req[r].err = "failed to get batches data: no batch IDs provided"
                    /\ doc = NoBytes
               ELSE IF found = {}
               THEN /\ req[r].err = "no valid batches found"
                    /\ doc = NoBytes
               ELSE /\ req[r].err = ErrNil
                    /\ Len(doc.batches) = Cardinality(found)
                    /\ {doc.batches[i] : i \in DOMAIN doc.batches}
                          = {batches[b] : b \in found}
                    /\ Len(doc.links) = Cardinality(foundLinks)
                    /\ {doc.links[i] : i \in DOMAIN doc.links}
                          = {links[l] : l \in foundLinks}

\* a document was returned for a list that names a stored batch and a number
\* that is not stored, from a store with a batch that was not requested
C23_Witness ==
    \E r \in Requesters :
        /\ req[r].how = "direct" /\ req[r].err = ErrNil
        /\ \E i \in DOMAIN req[r].ids :
              \A b \in DOMAIN batches : batches[b].links_num # req[r].ids[i]
        /\ Len(req[r].data.batches) = 1
        /\ Len(batches) > 1

\* ------------------------------------------------------------------ C24
\* C24: a GeneratePDFReportAsync call with an empty list, or with a list none
\* of whose numbers is a stored batch, never returns bytes: it ends with an
\* error.  When the call ends with the outcome of the build - received from the
\* worker or built by the caller itself on a full queue - the error is
\* 'no batch IDs provided' for the empty list and 'no valid batches found' for
\* the other (or, for a caller that builds with its context done, the error of
\* that context); the other ends of a queued call are its timeout and
\* its cancellation.
C24_AsyncRejectsEmptyAndMissing ==
    \A r \in Requesters :
        (req[r].pc = "done"
            /\ \A b \in DOMAIN batches : batches[b].links_num \notin Requested(req[r].ids))
        => /\ req[r].err # ErrNil
           /\ req[r].data = NoBytes
           /\ req[r].how \in {"error", "sync error", "timeout", "cancelled"}
           /\ (req[r].how \in {"error", "sync error"} /\ Len(req[r].ids) = 0)
                 => req[r].err = "failed to get batches data: no batch IDs provided"
           /\ (req[r].how = "error" /\ Len(req[r].ids) > 0)
                 => req[r].err = "no valid batches found"
           /\ (req[r].how = "sync error" /\ Len(req[r].ids) > 0)
                 => req[r].err \in {"no valid batches found", ErrCanceled}

\* on a new store, a queued call with the empty list has received the
\* worker's error and a call that met the full queue has built for itself and
\* found no batch of its list
C24_Witness ==
    /\ batches = <<>>
    /\ \E r, q \in Requesters :
          /\ req[r].pc = "done" /\ req[r].how = "error" /\ req[r].ids = <<>>
          /\ req[q].pc = "done" /\ req[q].how = "sync error" /\ req[q].ids = MissingIDs
          /\ req[q].err = "no valid batches found"

\* ------------------------------------------------------------------ C25
\* C25: a step in which the status update of a link of a call fails changes
\* nothing but that unit, which records its verdict in its slot and ends: the
\* row, the other units and the call go on as they were, and every unit that
\* has not ended can still take its step.  When a call whose context is not
\* cancelled and one of whose status updates failed comes out of the join, it
\* returns success with a verdict for every input address, and the batch is
\* completed unless the update of the batch row itself fails in that step.
C25_LinkUpdateFailureSwallowed ==
    /\ [][\A p \in Calls :
             /\ (pc[p] = "fanout"
                    /\ \E i \in DOMAIN linkIDs[p] : linkIDs[p][i] \in updFailed' \ updFailed)
                   => /\ pc'[p] = "fanout" /\ outcome'[p] = outcome[p]
                      /\ links' = links /\ batches' = batches
                      /\ \E i \in DOMAIN units[p] :
                            /\ units[p][i].pc = "persist" /\ units'[p][i] = Exited
                            /\ results'[p][i] # NilLink
                            /\ results'[p][i].URL = input[p][i]
                            /\ results'[p][i].Status = units[p][i].status
                            /\ \A j \in DOMAIN units[p] \ {i} :
                                  units'[p][j] = units[p][j] /\ results'[p][j] = results[p][j]
             /\ (pc[p] = "fanout" /\ pc'[p] = "done" /\ ~cancelled[p]
                    /\ \E i \in DOMAIN linkIDs[p] : linkIDs[p][i] \in updFailed)
                   => /\ outcome'[p] = "ok" /\ cause'[p] = ErrNil
                      /\ response'[p].LinksNum = batchNum[p]
                      /\ \A i \in DOMAIN input[p] :
                            /\ input[p][i] \in DOMAIN response'[p].Links
                            /\ Verdict(response'[p].Links[input[p][i]])
                      /\ \/ faults' > faults
                         \/ \E b \in DOMAIN batches' :
                               /\ batches'[b].links_num = batchNum[p]
                               /\ batches'[b].status = BatchStatusCompleted
         ]_vars
    /\ [](\A p \in Calls :
             (pc[p] = "fanout" /\ \E i \in DOMAIN linkIDs[p] : linkIDs[p][i] \in updFailed)
                => /\ \A i \in DOMAIN units[p] :
                         units[p][i].pc # "exit"
                            => ENABLED (UnitProbe(p, i) \/ UnitCheck(p, i) \/ UnitPersist(p, i))
                   /\ JoinReady(p) => ENABLED Join(p))

\* a call whose context was not cancelled has returned success for two
\* addresses; the update of one of its links had failed and left the row
\* processing, the other row has its verdict and the batch is completed
C25_Witness ==
    \E p \in Calls :
        /\ Done(p) /\ Succeeded(p) /\ ~cancelled[p]
        /\ GetBatch(batchNum[p]).status = BatchStatusCompleted
        /\ \E l, m \in DOMAIN links :
              /\ links[l].batch_num = batchNum[p] /\ links[m].batch_num = batchNum[p]
              /\ links[l].id \in updFailed /\ links[l].status = StatusProcessing
              /\ Verdict(links[m].status)

\* ------------------------------------------------------------------ C26
\* C26: a call leaves admission for its return only with an error and the
\* empty response, having started no goroutine: no link row of its batch has a
\* verdict; a failed CreateBatch inserts no row; and a call that returns after
\* a failed CreateLink has marked its batch failed (stated for the runs in
\* which the update of the batch row does not fail for a reason of its own).
C26_AdmissionFailureMarksFailed ==
    [][\A p \in Calls :
          /\ pc[p] \in {"createBatch", "createLinks", "markFailed"} => units[p] = <<>>
          /\ (pc[p] = "createBatch" /\ pc'[p] = "done")
                => /\ outcome'[p] = "failed to create batch" /\ cause'[p] # ErrNil
                   /\ response'[p] = EmptyResponse
                   /\ batches' = batches /\ links' = links
          /\ (pc[p] = "createLinks" /\ pc'[p] \notin {"createLinks", "fanout"})
                => /\ pc'[p] = "markFailed" /\ cause'[p] # ErrNil
                   /\ links' = links /\ units'[p] = <<>>
          /\ (pc[p] = "markFailed" /\ pc'[p] # "markFailed")
                => /\ pc'[p] = "done"
                   /\ outcome'[p] = "failed to process links" /\ cause'[p] = cause[p]
                   /\ response'[p] = EmptyResponse
                   /\ \A l \in DOMAIN links' :
                         links'[l].batch_num = batchNum[p]
                            => links'[l].status = StatusProcessing
                   /\ faults' = faults
                         => \E b \in DOMAIN batches' :
                               /\ batches'[b].links_num = batchNum[p]
                               /\ batches'[b].status = BatchStatusFailed
      ]_vars

\* ------------------------------------------------------------------ C27
\* C27: a request GET /api/batch/{id} that was admitted with a number as id,
\* for which no batch with that number is stored, is answered 404.
C27_MissingBatchNotFound ==
    (/\ http["status"].pc = "done"
     /\ http["status"].code \notin {StatusServiceUnavailable, StatusBadRequest}
     /\ \A b \in DOMAIN batches : batches[b].links_num # http["status"].id)
        => http["status"].code = StatusNotFound

\* ------------------------------------------------------------------ C28
\* the largest index at which the address occurs in the list
LastIndexOf(ls, u) ==
    CHOOSE i \in DOMAIN ls : ls[i] = u /\ \A j \in DOMAIN ls : ls[j] = u => j <= i

\* C28: every occurrence of an address in the input gets its own link row, in
\* input order, and its own unit with its own probe, whose verdict goes into
\* its own slot; the response of a successful call has one entry per distinct
\* address, and the entry of an address is the verdict in the slot of its last
\* occurrence in the input - the last one the loop over the slots writes into
\* the map - whichever unit finished last.
C28_RepeatedAddressLastWins ==
    /\ [](\A p \in Calls :
             pc[p] = "fanout"
                => /\ Len(linkIDs[p]) = Len(input[p]) /\ Len(units[p]) = Len(input[p])
                   /\ \A i, j \in DOMAIN input[p] : i # j => linkIDs[p][i] # linkIDs[p][j]
                   /\ \A i \in DOMAIN input[p] :
                         /\ links[linkIDs[p][i]].url = input[p][i]
                         /\ links[linkIDs[p][i]].batch_num = batchNum[p]
                         /\ results[p][i] # NilLink
                               => /\ results[p][i].ID = linkIDs[p][i]
                                  /\ units[p][i].pc = "exit")
    /\ [][\A p \in Calls :
             /\ \A i \in DOMAIN units[p] :
                   (pc[p] = "fanout" /\ units[p][i].pc = "start" /\ units'[p][i].pc = "probed")
                      => /\ \A j \in DOMAIN units[p] \ {i} : units'[p][j] = units[p][j]
                         /\ \E answer \in ServerAnswers(Normalize(input[p][i])) :
                               units'[p][i].status
                                  = checkURLAvailability(input[p][i], answer).status
             /\ (pc[p] = "fanout" /\ pc'[p] = "done" /\ outcome'[p] = "ok")
                   => /\ DOMAIN response'[p].Links = {input[p][i] : i \in DOMAIN input[p]}
                      /\ \A i \in DOMAIN input[p] :
                            response'[p].Links[input[p][i]]
                               = results[p][LastIndexOf(input[p], input[p][i])].Status
         ]_vars

\* a call with the same address twice has succeeded; the two rows hold
\* different verdicts, and the response holds the verdict of the second
C28_Witness ==
    \E p \in Calls :
        /\ Done(p) /\ Succeeded(p)
        /\ Len(input[p]) = 2 /\ input[p][1] = input[p][2]
        /\ Len(links) = 2
        /\ Verdict(links[1].status) /\ Verdict(links[2].status)
        /\ links[1].status # links[2].status
        /\ response[p].Links[input[p][2]] = links[2].status

\* ------------------------------------------------------------------ C29
\* C29: the link ids of a call grow strictly with the input index, also when
\* the inserts of concurrent calls fall in between; link id i is the id of
\* the row made for input address i in the call's batch; and a filled slot i
\* holds that id and that address, whichever units have finished.
C29_IdsAndSlotsInInputOrder ==
    \A p \in Calls :
        pc[p] \in {"createLinks", "markFailed", "fanout"} =>
            /\ Len(linkIDs[p]) <= Len(input[p])
            /\ \A i \in DOMAIN linkIDs[p] :
                  /\ i > 1 => linkIDs[p][i - 1] < linkIDs[p][i]
                  /\ links[linkIDs[p][i]].id = linkIDs[p][i]
                  /\ links[linkIDs[p][i]].url = input[p][i]
                  /\ links[linkIDs[p][i]].batch_num = batchNum[p]
            /\ pc[p] = "fanout" =>
                  /\ Len(results[p]) = Len(input[p]) /\ Len(linkIDs[p]) = Len(input[p])
                  /\ \A i \in DOMAIN results[p] :
                        results[p][i] # NilLink
                           => /\ results[p][i].ID = linkIDs[p][i]
                              /\ results[p][i].URL = input[p][i]
                              /\ results[p][i].BatchNum = batchNum[p]

\* the unit of the second of two different addresses has filled its slot
\* while the unit of the first has not yet probed
C29_Witness ==
    \E p \in Calls :
        /\ pc[p] = "fanout" /\ Len(input[p]) = 2 /\ input[p][1] # input[p][2]
        /\ units[p][1].pc = "start"
        /\ results[p][1] = NilLink
        /\ results[p][2] # NilLink /\ results[p][2].URL = input[p][2]

\* ------------------------------------------------------------------ C30
\* C30: every call of checkURLAvailability returns one of the two verdicts;
\* the verdict is available exactly when a request was sent and answered
\* without a transport error by a response whose code is at least 200 and
\* less than 400; at most one request is sent, and none when the address,
\* after the default scheme was put before an address without one, cannot be
\* parsed or has no host.
C30_ProberVerdict ==
    probe.status # "" =>
        LET u == IF probe.url # <<>> /\ probe.url[1] \in Schemes
                 THEN probe.url ELSE <<"http://">> \o probe.url
            unparsable == \E i \in DOMAIN u : u[i] = BadEscape
            noHost == Len(u) < 2 \/ u[2] \notin Hosts
        IN /\ probe.status \in {StatusAvailable, StatusNotAvailable}
           /\ probe.requests \in {0, 1}
           /\ probe.status = StatusAvailable
                 <=> /\ probe.requests = 1
                     /\ ~probe.answer.err
                     /\ probe.answer.code >= 200 /\ probe.answer.code < 400
           /\ (unparsable \/ noHost) <=> probe.requests = 0

\* an address without a host was probed while the network would have answered
\* 200: no request was sent and the verdict is not available
C30_Witness ==
    /\ probe.status = StatusNotAvailable
    /\ probe.requests = 0
    /\ probe.url = <<"http://", "/ok">>
    /\ probe.answer = Response(200)

\* ------------------------------------------------------------------ C31
\* C31: probing an address that starts with neither http:// nor https://
\* parses and requests that address with http:// put before it, and gives the
\* verdict, with the same number of requests, that probing the address with
\* http:// already prepended gives against the same answer of the network; an
\* address that starts with http:// or https:// is parsed and requested as
\* it was given.
C31_DefaultSchemePrepended ==
    probe.status # "" =>
        LET recognized == /\ Len(probe.url) > 0
                          /\ probe.url[1] \in {"http://", "https://"}
            prefixed == <<"http://">> \o probe.url
            other == checkURLAvailability(prefixed, probe.answer)
        IN /\ ~recognized =>
                /\ probe.target = prefixed
                /\ probe.status = other.status
                /\ probe.requests = other.requests
           /\ recognized => probe.target = probe.url

\* an address given as host and path only was probed, the request went to the
\* address with the default scheme and the 200 made it available
C31_Witness ==
    /\ probe.url = <<"host", "/ok">>
    /\ probe.target = <<"http://", "host", "/ok">>
    /\ probe.answer = Response(200)
    /\ probe.status = StatusAvailable
    /\ probe.requests = 1

\* ------------------------------------------------------------------ C32
\* C32: a step of GeneratePDFReport, taken by a fallback caller or by the
\* worker while other builds are under way, changes no row of batches or
\* links and nothing in memory but the locals of its own call: not the flag,
\* the queue, the tasks, the other calls or (for a caller) the worker; and
\* every build that ends, whatever builds ran beside it, ends as one build
\* run alone over the store would: with the cancellation error of its
\* context or with the outcome of GeneratePDFReport for its batch list.
C32_BuildOnlyReads ==
    /\ [][
         /\ \A r \in Requesters :
               (req[r].pc \in SyncPcs /\ req'[r] # req[r]) =>
                   /\ UNCHANGED <<batches, links, shutdown, lastSet, queue, tasks,
                                  worker, workerDone>>
                   /\ \A q \in Requesters \ {r} : req'[q] = req[q]
         /\ (worker.pc \in BuildPcs /\ worker' # worker) =>
               UNCHANGED <<batches, links, shutdown, lastSet, queue, tasks, req,
                           workerDone>>
       ]_vars
    /\ [](\A r \in Requesters :
            (req[r].pc = "done" /\ req[r].how \in {"sync result", "sync error"}) =>
                \/ req[r].data = NoBytes /\ req[r].err = ErrCanceled
                \/ [data |-> req[r].data, err |-> req[r].err]
                        = GeneratePDFReport(FALSE, req[r].ids))
    /\ [](worker.pc = "write" =>
            [data |-> worker.data, err |-> worker.err]
                = GeneratePDFReport(workerDone, tasks[worker.task].BatchIDs))

\* a fallback caller has returned its document while another caller is between
\* its two queries and the worker is rendering: the store is as it was
C32_Witness ==
    /\ \E r, q \in Requesters :
        /\ req[r].pc = "done" /\ req[r].how = "sync result"
        /\ req[r].data = [batches |-> StoredBatches, links |-> StoredLinks]
        /\ req[q].pc = "sync links"
    /\ worker.pc = "build render"
    /\ batches = StoredBatches /\ links = StoredLinks

\* ------------------------------------------------------------------ C33
\* C33: a direct call of the persistence layer whose statement is run by the
\* database: CreateBatch with a links_num that a row of batches already has
\* returns an error and changes no row, so the existing row keeps its status
\* and its created_at; UpdateLinkStatus with an id that no row of links has,
\* and UpdateBatchStatus with a links_num that no row of batches has, return
\* no error and change no row.
C33_DuplicateAndMissingRows ==
    [][LET call == dbCall'
           batchStored == \E i \in DOMAIN batches : batches[i].links_num = call.id
           linkStored == \E i \in DOMAIN links : links[i].id = call.id
       IN /\ (call.op = "CreateBatch" /\ batchStored) =>
                /\ call.err # ErrNil
                /\ batches' = batches /\ links' = links
          /\ (call.op = "UpdateLinkStatus" /\ ~linkStored) =>
                /\ call.err = ErrNil
                /\ batches' = batches /\ links' = links
          /\ (call.op = "UpdateBatchStatus" /\ ~batchStored) =>
                /\ call.err = ErrNil
                /\ batches' = batches /\ links' = links
      ]_vars

\* CreateBatch(1, processing, later) was called on the store that holds batch
\* 1, completed: it failed on the key and the row is as it was
C33_Witness ==
    /\ dbCall = [op |-> "CreateBatch", id |-> 1, status |-> BatchStatusProcessing,
                 time |-> "later", err |-> ErrConstraint]
    /\ batches = StoreBatches(1)
    /\ links = StoreLinks(1)

\* ------------------------------------------------------------------ C34
\* C34: a goroutine that runs one of its two selects on ctx.Done() (before the
\* probe, and after the probe and before UpdateLinkStatus) while the context
\* is cancelled returns in that step: the step writes no row, and the
\* goroutine's slot stays nil and its link row stays as it is until the call
\* returns; and once the call has returned no link row of its batch changes.
C34_CancelledUnitWritesNothing ==
    [][\A p \in Calls :
         /\ \A i \in DOMAIN units[p] :
               /\ (/\ pc[p] = "fanout"
                   /\ cancelled[p]
                   /\ units[p][i].pc \in {"start", "probed"}
                   /\ units'[p][i] # units[p][i]) =>
                       /\ units'[p][i] = Exited
                       /\ results'[p][i] = NilLink
                       /\ links' = links /\ batches' = batches
               /\ (units[p][i] = Exited /\ results[p][i] = NilLink) =>
                       /\ links'[linkIDs[p][i]] = links[linkIDs[p][i]]
                       /\ pc'[p] = "fanout" =>
                             /\ units'[p][i] = Exited
                             /\ results'[p][i] = NilLink
         /\ (pc[p] = "done" /\ created[p]) =>
               \A i \in DOMAIN links :
                   links[i].batch_num = batchNum[p] => links'[i] = links[i]
      ]_vars

\* a call of two addresses was cancelled during its fan-out and has returned:
\* the first goroutine saw the cancellation and its row is still processing,
\* the second had written its verdict before
C34_Witness ==
    \E p \in Calls :
        /\ pc[p] = "done" /\ cancelled[p] /\ created[p]
        /\ Panicked(p)      \* a slot was left nil
        /\ cancelAt[p] = "fanout, some unit finished"
        /\ Len(links) = 2
        /\ links[1].batch_num = batchNum[p] /\ links[2].batch_num = batchNum[p]
        /\ links[1].status = StatusProcessing /\ links[1].time = NULL
        /\ Verdict(links[2].status)

\* ------------------------------------------------------------------ C35
\* C35: when every goroutine of a call has returned, so that processLinks is
\* about to return its results without an error, every slot of the results
\* slice is filled; and no call ends with the loop of CheckLinks reading
\* link.URL of a nil slot.
C35_SlotsFilledAtReturn ==
    \A p \in Calls :
        /\ (pc[p] = "fanout" /\ JoinReady(p)) =>
                \A i \in DOMAIN results[p] : results[p][i] # NilLink
        /\ ~Panicked(p)

\* ------------------------------------------------------------------ C36
\* the link row that stands for address u in the response of call p: the row
\* of the last occurrence of u in the input, the newest row of the batch with
\* that url
RowOf(p, u) ==
    CHOOSE i \in DOMAIN links :
        /\ links[i].batch_num = response[p].LinksNum /\ links[i].url = u
        /\ \A j \in DOMAIN links :
              (links[j].batch_num = response[p].LinksNum /\ links[j].url = u) => j <= i

\* C36 as stated: when a call has returned with success, the verdict its
\* response gives for an address is the status of the link row of that
\* address.
C36_ResponseEqualsRows ==
    \A p \in Calls :
        Succeeded(p) =>
            \A u \in DOMAIN response[p].Links :
                /\ \E i \in DOMAIN links :
                      links[i].batch_num = response[p].LinksNum /\ links[i].url = u
                /\ links[RowOf(p, u)].status = response[p].Links[u]

\* C36, amended: when a call has returned with success, every address of its
\* response has a link row in the batch; the row holds the verdict of the
\* response if its UpdateLinkStatus returned no error, and otherwise (the
\* error was logged) is still processing without a time while the response
\* reports the verdict.
C36_ResponseEqualsRowsUnlessUpdateFailed ==
    \A p \in Calls :
        Succeeded(p) =>
            \A u \in DOMAIN response[p].Links :
                /\ \E i \in DOMAIN links :
                      links[i].batch_num = response[p].LinksNum /\ links[i].url = u
                /\ Verdict(response[p].Links[u])
                /\ IF RowOf(p, u) \in updFailed
                   THEN /\ links[RowOf(p, u)].status = StatusProcessing
                        /\ links[RowOf(p, u)].time = NULL
                   ELSE /\ links[RowOf(p, u)].status = response[p].Links[u]
                        /\ links[RowOf(p, u)].time = Now

\* a call of two addresses has returned with success: the update of the first
\* link failed, its row is still processing and the response calls the address
\* available; the row of the second holds the verdict of the response
C36_Witness ==
    \E p \in Calls :
        /\ Succeeded(p)
        /\ DOMAIN response[p].Links = {OkURL, NotFoundURL}
        /\ response[p].Links[OkURL] = StatusAvailable
        /\ RowOf(p, OkURL) \in updFailed
        /\ links[RowOf(p, OkURL)].status = StatusProcessing
        /\ RowOf(p, NotFoundURL) \notin updFailed
        /\ links[RowOf(p, NotFoundURL)].status = StatusNotAvailable

\* ------------------------------------------------------------------ C37
\* the tasks in the queue
Queued == {queue[i] : i \in DOMAIN queue}

\* C37: once the worker's loop has returned, a task in the queue (left there
\* at the return or sent afterwards) stays in the queue, nothing is written to
\* its Result or Error channel, and its requester is waiting or has returned
\* by the timeout or by its context, without bytes; the call itself is still
\* admitted while the flag is not set and its send still succeeds while the
\* queue has a free slot.
C37_StrandedTasks ==
    /\ [](worker.pc = "stopped" =>
            \A t \in Queued :
                /\ tasks[t].Result = <<>> /\ tasks[t].Error = <<>>
                /\ \A r \in Requesters :
                      t = TaskOf(r) =>
                          \/ req[r].pc = "wait"
                          \/ /\ req[r].pc = "done"
                             /\ req[r].how \in {"timeout", "cancelled"}
                             /\ req[r].data = NoBytes
                             /\ req[r].err \in {"PDF generation timeout", ErrCanceled})
    /\ [][worker.pc = "stopped" =>
            /\ worker' = worker
            /\ Len(queue') >= Len(queue)
            /\ \A i \in DOMAIN queue : queue'[i] = queue[i] /\ tasks'[queue[i]] = tasks[queue[i]]
            /\ \A r \in Requesters :
                  /\ (req[r].pc = "idle" /\ req'[r] # req[r] /\ ~shutdown) =>
                        req'[r].pc = "enqueue"
                  /\ (req[r].pc = "enqueue" /\ req'[r] # req[r] /\ Len(queue) < QueueCap) =>
                        /\ req'[r].pc = "wait"
                        /\ queue' = Append(queue, TaskOf(r))
       ]_vars

\* the loop has returned with the flag not set; a call made its task and sent
\* it to the queue, where it still is, untouched, and the call has returned by
\* the timeout
C37_Witness ==
    /\ worker.pc = "stopped"
    /\ ~shutdown
    /\ \E r \in Requesters :
          /\ req[r].pc = "done" /\ req[r].how = "timeout"
          /\ queue = <<TaskOf(r)>>
          /\ tasks[TaskOf(r)] = NewTask(req[r].ids)

\* ------------------------------------------------------------------ C38
\* a task whose requester has returned by the timeout or by its context; the
\* tasks the queue holds at the start were left by such requesters
Abandoned(t) ==
    \/ t <= QueueCap /\ tasks[t].BatchIDs # <<>>
    \/ \E r \in Requesters :
          /\ t = TaskOf(r)
          /\ req[r].pc = "done" /\ req[r].how \in {"timeout", "cancelled"}

\* C38: a call that returns by the timeout or by its context leaves the queue,
\* the tasks and the worker as they are; an abandoned task leaves the queue
\* only by the worker receiving it at the head, and a queue full of abandoned
\* tasks sends a call to the synchronous build; the worker builds every task,
\* abandoned or not, under its own context, whatever the state of the
\* requester's; its write is always ready, and what was written to the
\* channel of an abandoned task stays there.
C38_AbandonedTaskStillServed ==
    /\ [][/\ \A r \in Requesters :
               /\ (/\ req[r].pc = "wait"
                   /\ req'[r].pc = "done"
                   /\ req'[r].how \in {"timeout", "cancelled"}) =>
                       /\ queue' = queue /\ tasks' = tasks /\ worker' = worker
               /\ (/\ req[r].pc = "enqueue" /\ req'[r] # req[r]
                   /\ Len(queue) = QueueCap
                   /\ \A t \in Queued : Abandoned(t)) =>
                       req'[r].pc = "sync" /\ queue' = queue
          /\ \A t \in Queued :
               Abandoned(t) =>
                   \/ \E i \in DOMAIN queue' : queue'[i] = t
                   \/ /\ worker.pc = "select" /\ Head(queue) = t
                      /\ worker'.pc = "build" /\ worker'.task = t
          /\ (worker.pc = "build" /\ worker' # worker) =>
               /\ worker'.pc = "write"
               /\ [data |-> worker'.data, err |-> worker'.err]
                     = GeneratePDFReport(workerDone, tasks[worker.task].BatchIDs)
          /\ \A t \in TaskIDs :
               (Abandoned(t) /\ (tasks[t].Result # <<>> \/ tasks[t].Error # <<>>)) =>
                   tasks'[t] = tasks[t]
         ]_vars
    /\ [](worker.pc = "write" => ENABLED WorkerWrite)
    /\ [](\A t \in TaskIDs : Len(tasks[t].Result) + Len(tasks[t].Error) <= TaskChanCap)

\* a call was queued and returned when its context was done; the worker, its
\* own context live, has since received the task, built the document and
\* written it to the Result channel, where it stays unread
C38_Witness ==
    /\ ~workerDone
    /\ worker.pc = "select"
    /\ \E r \in Requesters :
          /\ req[r].pc = "done" /\ req[r].how = "cancelled" /\ req[r].data = NoBytes
          /\ tasks[TaskOf(r)].Result
                = <<[batches |-> StoredBatches, links |-> StoredLinks]>>
          /\ tasks[TaskOf(r)].Error = <<>>
          /\ TaskOf(r) \notin Queued

====
